---- MODULE Spec2Model ----
(***************************************************************************)
(* Request authentication and replay prevention of the Isla Reader server. *)
(*                                                                         *)
(*   server/app/security.py              NonceStore, verify_signed_request *)
(*   server/app/routers/notion_oauth.py  EphemeralSessionCache,            *)
(*                                       StateReplayGuard, the callback    *)
(*                                       and finalize handlers             *)
(*   server/app/routers/key.py           issue_ai_key                      *)
(*                                                                         *)
(* Threads are modelled as processes with a program counter; every step of *)
(* a process is one statement (or one run of statements that touch no      *)
(* shared state).  The wall clock is counted in ticks, Res ticks to the    *)
(* second: datetime.now() reads it with sub-second precision and           *)
(* int(...timestamp()) truncates it to whole seconds.  time.monotonic() is *)
(* a clock of its own, counted in seconds.                                 *)
(***************************************************************************)
EXTENDS Integers, Sequences, FiniteSets, TLC

\* ---------------------------------------------------------------- bounds
Res == 2
MaxClock == 4
MaxTs == 2
RequestTtl == 1
MaxEntries == 1
MaxSessions == 1
MaxTtl == 1
\* The longest ttl_seconds of a set in the one-thread cache specification.
LongTtl == 2
MaxMono == 2
GuardTtl == 2
MaxGuardMono == 3
SessionTtl == 1
\* The most lines a metrics file has.
MaxLines == 3
\* The largest max_events a metrics store is constructed with.
MaxEvents == 2
\* The most events a metrics store has loaded and been given, together.
MaxHistory == 4
\* settings.dashboard_session_ttl_seconds
DashTtl == 1

\* ------------------------------------------------------------ input sets
Procs == {"t1", "t2"}

\* Strings are sequences of characters, so that formatting is concatenation.
ClientId == <<"c">>
Clients == {<<"c">>, <<"c", ".", "a">>}
Nonces == {<<"1">>, <<"a", ".", "1">>}
Timestamps == 0..MaxTs
ClientSecret == "secret"
Keys == {"secret", "other"}

\* OAuth state values that match STATE_PATTERN
States == {"stateAAAA", "stateBBBB"}
StateReplayed == "state_replayed"

SessionIds == {"s1", "s2"}
SessionPayloads == {"tokenA", "tokenB"}
\* ttl_seconds: zero (expired on arrival) and one positive lifetime
Ttls == {0, MaxTtl}

\* ------------------------------------------------------------- variables
VARIABLES
    clock,      \* wall-clock time in ticks (Res ticks per second)
    mono,       \* time.monotonic(), in seconds
    seen,       \* NonceStore._seen: entries [nonce, ts] in insertion order
    lock,       \* NonceStore._lock: "free" or the holder
    pc,         \* where each thread is in verify_signed_request
    req,        \* the arguments of the call a thread is running
    readNow,    \* `now` read by verify_signed_request (ticks)
    cutoff,     \* `cutoff` computed by validate_and_store (seconds)
    result,     \* the HTTPException detail, "accepted", or "pending"
    hist,       \* history: fate of the latest stored entry of each nonce
    prior,      \* history: the call's (nonce, timestamp) was accepted before
    overlap,    \* history: threads inside validate_and_store with the same nonce at entry
    store,      \* EphemeralSessionCache._store: entries [id, exp, payload] in insertion order
    spc,        \* where each thread is in EphemeralSessionCache.set / pop
    call,       \* the operation a thread is running with its arguments and locals
    sres,       \* what pop returned: a payload or "None"
    shist,      \* history: the latest set of each session id and what became of its entry
    takes,      \* history: pops that returned a payload since the latest set of each id
    found,      \* history: what a pop met at its lookup
    gseen,      \* StateReplayGuard._seen: entries [state, at] in insertion order
    glock,      \* StateReplayGuard._lock: "free" or the holder
    gpc,        \* where each thread is in validate_and_mark
    gcall,      \* the state value and the clock reading of the call
    gres,       \* "ok", 'state_replayed', or "pending"
    ghist,      \* history: the latest marking of each state value and its fate
    gprior,     \* history: the call repeats a state marked less than ttl ago
    goverlap,   \* history: threads inside validate_and_mark with the same state at entry
    fpc,        \* where each task is in notion_oauth_callback / finalize_notion_oauth
    freq,       \* the request a task is serving, and the upstream answer it got
    fresp,      \* the response of the task
    issued,     \* the session ids uuid4() has returned
    fhist,      \* history: what has become of each session id
    fwhy,       \* history: what had become of the session id a finalize asked for
    ftouch,     \* history: the stores a callback's own steps have changed
    freach,     \* history: the instant a callback of each state last went on to the exchange
    xchg,       \* the OAuth exchange endpoint: stage, provider contacted, answer
    fsent,      \* the request a callback has sent to the token endpoint
    mpc,        \* MetricsStore construction: position in __init__ and _load
    mfile,      \* what is at the metrics path
    mevents,    \* MetricsStore._events
    mline,      \* _load: index of the line the loop is at
    mmax,       \* MetricsStore.max_events
    mall,       \* history: the events loaded, then the events added, in order
    madd,       \* ingest_metrics: the event of the last request and its answer
    hgate,      \* enforce_https: where the middleware is with its request
    dtok,       \* the dashboard session cookie of the last login, with what it was made from
    dres        \* _verify_session_token: the token of the last call, its instant and answer

authVars == <<seen, lock, pc, req, readNow, cutoff, result>>
authHist == <<hist, prior, overlap>>
sessVars == <<mono, store, spc, call, sres>>
sessHist == <<shist, takes, found>>
guardVars == <<gseen, glock, gpc, gcall, gres, ghist, gprior, goverlap>>
flowVars == <<fpc, freq, fresp, issued, xchg, fsent>>
flowHist == <<fhist, fwhy, ftouch, freach>>
metricVars == <<mpc, mfile, mevents, mline, mmax, mall, madd>>
httpsVars == <<hgate>>
dashVars == <<dtok, dres>>
vars == <<clock, mono, seen, lock, pc, req, readNow, cutoff, result, hist, prior, overlap,
          store, spc, call, sres, shist, takes, found,
          gseen, glock, gpc, gcall, gres, ghist, gprior, goverlap,
          fpc, freq, fresp, issued, fhist, fwhy, ftouch, freach, xchg, fsent,
          mpc, mfile, mevents, mline, mmax, mall, madd, hgate, dtok, dres>>

\* --------------------------------------------------------------- helpers
Abs(x) == IF x < 0 THEN 0 - x ELSE x

Digit == <<"0", "1", "2", "3", "4", "5", "6", "7", "8", "9">>

\* str(int) of a non-negative integer, as f"{timestamp}" renders it.
RECURSIVE ToStr(_)
ToStr(n) == IF n < 10 THEN <<Digit[n + 1]>> ELSE ToStr(n \div 10) \o <<Digit[(n % 10) + 1]>>

\* f"{client_id}.{nonce}.{timestamp}"
Payload(c, n, t) == c \o <<".">> \o n \o <<".">> \o ToStr(t)

\* hmac.new(key, msg, sha256).hexdigest(): an ideal MAC, one digest per
\* (key, message) pair and no collisions.
Hmac(key, msg) == <<key, msg>>

\* The signatures a caller may supply: every digest of a well-formed payload
\* under the client secret or another key.
Signatures == {Hmac(k, Payload(c, n, t)) : k \in Keys, c \in Clients, n \in Nonces, t \in Timestamps}

\* A comparison that only tells which key signed, not what was signed.
CompareDigestKeyOnly(a, b) == a[1] = b[1]

\* hmac.compare_digest(a, b)
CompareDigest(a, b) == a = b

\* int(datetime.now(timezone.utc).timestamp())
NowTs(ticks) == ticks \div Res

\* A freshness test that also rejects the boundary.
StaleAtBoundary(now, t) == Abs(now - t * Res) >= RequestTtl * Res

\* delta_seconds > settings.request_ttl_seconds, in ticks
Stale(now, t) == Abs(now - t * Res) > RequestTtl * Res

InvalidClient == "Invalid client credentials"
Expired == "Request timestamp expired"
InvalidSignature == "Invalid signature"
NonceUsed == "Nonce already used"

\* The checks with the freshness test moved in front of the client test.
VerifyChecksFreshFirst(c, n, t, s, now) ==
    IF Stale(now, t) THEN Expired
    ELSE IF c # ClientId THEN InvalidClient
    ELSE IF ~CompareDigest(Hmac(ClientSecret, Payload(c, n, t)), s) THEN InvalidSignature
    ELSE "pending"

\* The three stateless checks of verify_signed_request, first failure wins;
\* "pending" means the call goes on to NonceStore.validate_and_store.
VerifyChecks(c, n, t, s, now) ==
    IF c # ClientId THEN InvalidClient
    ELSE IF Stale(now, t) THEN Expired
    ELSE IF ~CompareDigest(Hmac(ClientSecret, Payload(c, n, t)), s) THEN InvalidSignature
    ELSE "pending"

\* ---------------------------------------------------- NonceStore._evict
\* Position of entry i in sorted(items, key=ts): the sort is stable, so
\* equal timestamps keep their insertion order.
SortRank(s, i) ==
    Cardinality({j \in 1..Len(s) : s[j].ts < s[i].ts \/ (s[j].ts = s[i].ts /\ j <= i)})

RECURSIVE Without(_, _, _)
\* s with the positions in D removed; i is the position of Head(s) in the
\* original sequence.
Without(s, D, i) ==
    IF s = <<>> THEN <<>>
    ELSE IF i \in D THEN Without(Tail(s), D, i + 1)
    ELSE <<Head(s)>> \o Without(Tail(s), D, i + 1)

\* An expiry test that also takes the entry exactly at the cutoff.
IsExpiredAtCutoff(e, cut) == e.ts <= cut

\* _evict, line 21: ts < cutoff
IsExpired(e, cut) == e.ts < cut

\* A sweep that removes nothing.
TtlSweepKeepsAll(s, cut) == s

\* _evict, lines 21-23
TtlSweep(s, cut) == SelectSeq(s, LAMBDA e : ~IsExpired(e, cut))

\* An overflow drop that removes the newest entries.
DropNewest(s, max) ==
    IF Len(s) <= max THEN s
    ELSE Without(s, {i \in 1..Len(s) : SortRank(s, i) > max}, 1)

\* _evict, lines 25-31
DropOldest(s, max) ==
    IF Len(s) <= max THEN s
    ELSE LET over == Len(s) - max
         IN  Without(s, {i \in 1..Len(s) : SortRank(s, i) <= over}, 1)

Evict(s, cut, max) == DropOldest(TtlSweep(s, cut), max)

Has(s, n) == \E i \in 1..Len(s) : s[i].nonce = n
Get(s, n) == LET i == CHOOSE i \in 1..Len(s) : s[i].nonce = n IN s[i].ts
NoncesOf(s) == {s[i].nonce : i \in 1..Len(s)}

\* A replay test that lets an entry exactly at the cutoff through.
IsReplayStrict(s, n, cut) == Has(s, n) /\ Get(s, n) > cut

\* existing_ts is not None and existing_ts >= cutoff
IsReplay(s, n, cut) == Has(s, n) /\ Get(s, n) >= cut

\* self._seen[nonce] = timestamp: a new key goes last, an existing key keeps
\* its position.
Put(s, n, t) ==
    IF Has(s, n) THEN [i \in 1..Len(s) |-> IF s[i].nonce = n THEN [nonce |-> n, ts |-> t] ELSE s[i]]
    ELSE Append(s, [nonce |-> n, ts |-> t])

\* ------------------------------------------------------------------ init
NoReq == [client |-> <<>>, nonce |-> <<>>, ts |-> 0, sig |-> <<>>]
NoHist == [ts |-> 0, fate |-> "never"]
NoCall == [op |-> "none", id |-> "", payload |-> "None", exp |-> 0, now |-> 0]
NoSet == [exp |-> 0, payload |-> "None", fate |-> "never", over |-> FALSE]

\* ==================================================== OAuth handoff flow
\* notion_oauth_callback and finalize_notion_oauth are coroutines: a task
\* runs without interruption from one await to the next.  The callback has
\* one await, the upstream token exchange; finalize has none.

\* An optional query parameter: absent (None) or a string.
None == [some |-> FALSE, text |-> <<>>]
Some(text) == [some |-> TRUE, text |-> text]

\* `value or ""`
OrEmpty(o) == IF o.some THEN o.text ELSE <<>>

Whitespace == {" ", "\t", "\n"}

RECURSIVE LStrip(_)
LStrip(s) == IF s # <<>> /\ Head(s) \in Whitespace THEN LStrip(Tail(s)) ELSE s

RECURSIVE RStrip(_)
RStrip(s) == IF s # <<>> /\ s[Len(s)] \in Whitespace THEN RStrip(SubSeq(s, 1, Len(s) - 1)) ELSE s

\* str.strip()
Strip(s) == RStrip(LStrip(s))

\* [A-Za-z0-9._~\-]
StateChars ==
    {"A", "B", "C", "D", "E", "F", "G", "H", "I", "J", "K", "L", "M",
     "N", "O", "P", "Q", "R", "S", "T", "U", "V", "W", "X", "Y", "Z",
     "a", "b", "c", "d", "e", "f", "g", "h", "i", "j", "k", "l", "m",
     "n", "o", "p", "q", "r", "s", "t", "u", "v", "w", "x", "y", "z",
     "0", "1", "2", "3", "4", "5", "6", "7", "8", "9", ".", "_", "~", "-"}

\* STATE_PATTERN.fullmatch: ^[A-Za-z0-9._~\-]{8,512}$
StatePattern(s) ==
    /\ Len(s) >= 8 /\ Len(s) <= 512
    /\ \A i \in 1..Len(s) : s[i] \in StateChars

\* _validate_state_or_raise, lines 127-129: the normalized value, and
\* whether it is accepted
Normalized(state) == Strip(OrEmpty(state))
StateWellFormed(state) == Normalized(state) # <<>> /\ StatePattern(Normalized(state))

StateA == <<"s", "t", "a", "t", "e", "A", "b", "c">>
StateB == <<"s", "t", "-", "~", "_", ".", "9", "Z">>
\* The well-formed states among RawStates, normalized.
FlowStates == {StateA, StateB}
RawStates ==
    {None, Some(<<" ", "\t">>),
     Some(<<"s", "t", "a", "t", "e", "A", "b">>),
     Some(<<"s", "t", "a", "t", "e", "A", "b", "!">>),
     Some(<<" ">> \o StateA \o <<"\n">>), Some(StateB)}

Codes == {None, Some(<<>>), Some(<<"c">>)}

\* uuid4(): the ids the server can issue, and what clients send to finalize
FlowIds == {<<"u", "1">>, <<"u", "2">>}
RawSessionIds == {<<" ">>, <<"u", "1">>, <<" ", "u", "1", " ">>, <<"u", "2">>, <<"z", "z">>}

\* What the upstream provider answers: a status and a body.  A body is not
\* JSON, or a JSON value: a dict (empty, or with keys, with or without an
\* access_token), or a list (empty or not).
Absent == "<absent>"
Body(type, empty, token) == [type |-> type, empty |-> empty, token |-> token, error |-> Absent]
\* The body with an error text under error_description, message or error.
WithError(b, text) == [b EXCEPT !.error = text]
Bodies ==
    {Body("notjson", TRUE, Absent), Body("dict", TRUE, Absent), Body("dict", FALSE, Absent),
     Body("dict", FALSE, "tokenA"), Body("dict", FALSE, "  "), Body("dict", FALSE, "<int>"),
     Body("list", FALSE, Absent)}
Answer(status, body) == [kind |-> "response", status |-> status, body |-> body]
NetworkFailure == [kind |-> "network", status |-> 0, body |-> Body("notjson", TRUE, Absent)]
Upstream ==
    {Answer(200, b) : b \in Bodies}
        \cup {Answer(400, Body("notjson", TRUE, Absent)), Answer(400, WithError(Body("dict", FALSE, "tokenA"), "invalid_grant")),
              Answer(400, Body("list", FALSE, Absent)), NetworkFailure}
\* settings.notion_client_id and settings.notion_client_secret are both set
NotionConfigured == BOOLEAN

\* lines 207-210: notion_resp.json(), {} when it raises
ParseBody(b) == IF b.type = "notjson" THEN [type |-> "dict", empty |-> TRUE, token |-> Absent, error |-> Absent] ELSE b

\* isinstance(access_token, str) and access_token.strip()
TokenUsable(tok) == tok \notin {Absent, "<int>"} /\ tok # "  "

\* --- the responses
Resp(status, kind, msg, sid, payload) ==
    [status |-> status, kind |-> kind, msg |-> msg, detail |-> "", sid |-> sid, payload |-> payload]
NoResp == Resp(0, "none", "", <<>>, "None")
RedirectError(msg) == Resp(302, "error", msg, <<>>, "None")
RedirectFinish(sid) == Resp(302, "finish", "", sid, "None")
ServerError == Resp(500, "exception", "", <<>>, "None")
InvalidSession == Resp(400, "invalid_session", "session_id is required", <<>>, "None")
SessionExpired == Resp(400, "session_expired", "Session not found or expired", <<>>, "None")
TokenPayload(payload) == Resp(200, "payload", "", <<>>, payload)

\* settings.notion_client_id, settings.notion_client_secret
NotionClientId == "notion-client-id"
NotionClientSecret == "notion-client-secret"

\* A request that puts the client secret into the JSON body as well.
ExchangeMessageSecretInBody(code, redirect_uri, client_id, client_secret, token_url) ==
    [url |-> token_url,
     auth |-> <<client_id, client_secret>>,
     json |-> [grant_type |-> "authorization_code", code |-> code, redirect_uri |-> redirect_uri,
               client_secret |-> client_secret],
     headers |-> {"Content-Type", "Accept", "User-Agent"}]

\* _exchange_code_with_notion, lines 152-164: the POST to the token
\* endpoint, with the client id and secret as HTTP Basic credentials
ExchangeMessage(code, redirect_uri, client_id, client_secret, token_url) ==
    [url |-> token_url,
     auth |-> <<client_id, client_secret>>,
     json |-> [grant_type |-> "authorization_code", code |-> code, redirect_uri |-> redirect_uri],
     headers |-> {"Content-Type", "Accept", "User-Agent"}]

NoMessage == [url |-> "", auth |-> <<"", "">>,
              json |-> [grant_type |-> "", code |-> <<>>, redirect_uri |-> ""],
              headers |-> {}]

\* The exchange endpoint is serving no request.
NoExchange == [stage |-> "idle", called |-> FALSE, status |-> 0, token |-> Absent]

NoFReq == [kind |-> "none", state |-> None, sid |-> <<>>]


\* ========================================================= MetricsStore
\* Lines of a metrics file: empty, blanks only, two lines that are events,
\* a line that is not JSON, and JSON without the required fields.
EventLineA == "{interface: chat, status_code: 200, ...}"
EventLineB == "{interface: tts, status_code: 500, ...}"
MetricLines == {"", "  ", EventLineA, EventLineB, "{interface: ch", "{}"}

\* not line.strip()
IsBlank(line) == line \in {"", "  "}

\* MetricEvent.model_validate_json(line): the event, or a ValidationError.
ModelValidateJson(line) ==
    IF line = EventLineA THEN [ok |-> TRUE, event |-> "chat 200"]
    ELSE IF line = EventLineB THEN [ok |-> TRUE, event |-> "tts 500"]
    ELSE [ok |-> FALSE, event |-> "ValidationError"]

\* What the path leads to: nothing; a file under a directory the process may
\* not search, so that stat fails with EACCES; a file whose read fails (no
\* read permission, a directory, bytes that are not UTF-8); a text file,
\* given by its splitlines().
NoFile == [kind |-> "missing", lines |-> <<>>]
NoStat == [kind |-> "nostat", lines |-> <<>>]
NoRead == [kind |-> "noread", lines |-> <<>>]
TextFiles == {[kind |-> "text", lines |-> l] :
                 l \in UNION {[1..n -> MetricLines] : n \in 0..MaxLines}}
MetricFiles == {NoFile, NoStat, NoRead} \cup TextFiles

\* The events a request to /v1/metrics carries.
MetricEvents == {"chat 200", "tts 500"}

\* event.model_dump_json(): the line of an event.
ModelDumpJson(event) == IF event = "chat 200" THEN EventLineA ELSE EventLineB

\* settings.metrics_max_events: an integer of the environment, not validated.
MaxEventsSettings == 0..MaxEvents

\* The x-metrics-key header of a request, "None" when absent.
MetricsIngestToken == "metrics-token"
MetricsKeys == {"None", "other-token", MetricsIngestToken}

\* How _persist ends: the file is written; mkdir or the opening of the file
\* fails and the file is as it was; the write fails after the file was
\* opened for writing, which has emptied it.
PersistOutcomes == {"written", "untouched", "emptied"}

\* No request to /v1/metrics has been answered.
NoIngest == [status |-> 0, event |-> "None", persist |-> "none"]

\* ==================================================== dashboard session
\* The usernames a dashboard is configured with: without a dot, with a dot,
\* and empty.
Usernames == {<<"o", "p">>, <<"o", ".", "p">>, <<>>}

\* settings.resolved_dashboard_secret()
DashboardSecret == "dashboard-secret"

\* hmac.new(key, payload, sha256).hexdigest(): an ideal MAC rendered in
\* characters that are not dots, one digest per (key, payload) pair.
HexDigest(key, payload) ==
    <<key>> \o [i \in 1..Len(payload) |-> IF payload[i] = "." THEN ":" ELSE payload[i]]

\* _make_session_token, lines 51-59
MakeSessionToken(username, ticks) ==
    LET exp == NowTs(ticks) + DashTtl
        payload == username \o <<".">> \o ToStr(exp)
        signature == HexDigest(DashboardSecret, payload)
    IN  payload \o <<".">> \o signature

\* The positions of the dots of a string.
Dots(s) == {i \in 1..Len(s) : s[i] = "."}

\* s.rsplit(".", 1): the list of its parts
RSplit(s) ==
    IF Dots(s) = {} THEN <<s>>
    ELSE LET d == CHOOSE i \in Dots(s) : \A j \in Dots(s) : j <= i
         IN  <<SubSeq(s, 1, d - 1), SubSeq(s, d + 1, Len(s))>>

\* s.split(".", 1): the list of its parts
Split(s) ==
    IF Dots(s) = {} THEN <<s>>
    ELSE LET d == CHOOSE i \in Dots(s) : \A j \in Dots(s) : i <= j
         IN  <<SubSeq(s, 1, d - 1), SubSeq(s, d + 1, Len(s))>>

\* The value of a string of decimal digits.
RECURSIVE ToInt(_)
ToInt(s) ==
    IF s = <<>> THEN 0
    ELSE 10 * ToInt(SubSeq(s, 1, Len(s) - 1))
         + (CHOOSE d \in 0..9 : Digit[d + 1] = s[Len(s)])

\* int(exp_str): the number, or a ValueError for a string that is empty or
\* has a character that is not a digit.
ParseInt(s) ==
    IF s # <<>> /\ \A i \in 1..Len(s) : \E d \in 1..10 : Digit[d] = s[i]
    THEN [ok |-> TRUE, value |-> ToInt(s)]
    ELSE [ok |-> FALSE, value |-> 0]

Verdict(status, detail, username) == [status |-> status, detail |-> detail, username |-> username]

\* _verify_session_token, lines 62-79: every exception of the try block is
\* answered with 401 'Invalid session'.
VerifySessionToken(token, ticks) ==
    LET outer == RSplit(token)
    IN  IF Len(outer) # 2 THEN Verdict(401, "Invalid session", <<>>)
        ELSE LET payload == outer[1]
                 signature == outer[2]
                 inner == Split(payload)
             IN  IF ~CompareDigest(signature, HexDigest(DashboardSecret, payload))
                 THEN Verdict(401, "Invalid session", <<>>)
                 ELSE IF Len(inner) # 2 THEN Verdict(401, "Invalid session", <<>>)
                 ELSE IF ~ParseInt(inner[2]).ok THEN Verdict(401, "Invalid session", <<>>)
                 ELSE IF ticks > ParseInt(inner[2]).value * Res
                 THEN Verdict(401, "Session expired", <<>>)
                 ELSE Verdict(200, "", inner[1])

\* No login has happened; no token has been verified.
NoToken == [token |-> <<>>, username |-> <<>>, exp |-> 0, made |-> FALSE]
NoVerdict == [token |-> <<>>, at |-> 0, status |-> 0, detail |-> "", username |-> <<>>]

\* The cookies a browser may present after a login: none, the token of the
\* login, the token with a later expiry under the old signature, and a token
\* signed with another secret.
Cookies(tok) ==
    {<<>>, tok.token,
     tok.username \o <<".">> \o ToStr(tok.exp + 1) \o <<".">>
        \o HexDigest(DashboardSecret, tok.username \o <<".">> \o ToStr(tok.exp)),
     tok.username \o <<".">> \o ToStr(tok.exp) \o <<".">>
        \o HexDigest("other-secret", tok.username \o <<".">> \o ToStr(tok.exp))}

\* ======================================================== enforce_https
\* request.url.scheme, and the x-forwarded-proto header ("" when absent)
Schemes == {"http", "https"}
ForwardedProtos == {"", "http", "https", "HTTPS"}

\* The middleware is serving no request.
NoGate == [stage |-> "idle", scheme |-> "", proto |-> "", require |-> FALSE, status |-> 0, headers |-> {}]

Init ==
    /\ clock = 0
    /\ mono = 0
    /\ seen = <<>>
    /\ lock = "free"
    /\ pc = [p \in Procs |-> "idle"]
    /\ req = [p \in Procs |-> NoReq]
    /\ readNow = [p \in Procs |-> 0]
    /\ cutoff = [p \in Procs |-> 0]
    /\ result = [p \in Procs |-> "pending"]
    /\ hist = [n \in Nonces |-> NoHist]
    /\ prior = [p \in Procs |-> FALSE]
    /\ overlap = [p \in Procs |-> {}]
    /\ store = <<>>
    /\ spc = [p \in Procs |-> "idle"]
    /\ call = [p \in Procs |-> NoCall]
    /\ sres = [p \in Procs |-> "None"]
    /\ shist = [i \in SessionIds |-> NoSet]
    /\ takes = [i \in SessionIds |-> 0]
    /\ found = [p \in Procs |-> NoSet]
    /\ gseen = <<>>
    /\ glock = "free"
    /\ gpc = [p \in Procs |-> "idle"]
    /\ gcall = [p \in Procs |-> [state |-> "", now |-> 0]]
    /\ gres = [p \in Procs |-> "pending"]
    /\ ghist = [st \in States |-> [at |-> 0, fate |-> "never"]]
    /\ gprior = [p \in Procs |-> FALSE]
    /\ goverlap = [p \in Procs |-> {}]
    /\ fpc = [p \in Procs |-> "idle"]
    /\ freq = [p \in Procs |-> NoFReq]
    /\ fresp = [p \in Procs |-> NoResp]
    /\ issued = {}
    /\ fhist = [i \in FlowIds |-> "never"]
    /\ fwhy = [p \in Procs |-> "none"]
    /\ ftouch = [p \in Procs |-> {}]
    /\ freach = [st \in FlowStates |-> {}]
    /\ xchg = [p \in Procs |-> NoExchange]
    /\ fsent = [p \in Procs |-> NoMessage]
    /\ mpc = "down"
    /\ mfile = NoFile
    /\ mevents = <<>>
    /\ mline = 0
    /\ mmax = 0
    /\ mall = <<>>
    /\ madd = NoIngest
    /\ hgate = NoGate
    /\ dtok = NoToken
    /\ dres = NoVerdict

\* --------------------------------------------------------------- actions
\* Time passes.  The wall clock is taken to be non-decreasing.
Tick ==
    /\ clock < MaxClock
    /\ clock' = clock + 1
    /\ UNCHANGED <<authVars, authHist, sessVars, sessHist, guardVars, flowVars, flowHist, metricVars, httpsVars, dashVars>>

\* The checks, but a request rejected for its signature still records its
\* nonce.
VerifyBurnsNonce(p, c, n, t, s) ==
    /\ pc[p] = "idle"
    /\ req' = [req EXCEPT ![p] = [client |-> c, nonce |-> n, ts |-> t, sig |-> s]]
    /\ readNow' = [readNow EXCEPT ![p] = clock]
    /\ result' = [result EXCEPT ![p] = VerifyChecks(c, n, t, s, clock)]
    /\ pc' = [pc EXCEPT ![p] = IF VerifyChecks(c, n, t, s, clock) = "pending" THEN "now" ELSE "done"]
    /\ seen' = IF VerifyChecks(c, n, t, s, clock) = InvalidSignature THEN Put(seen, n, t) ELSE seen
    /\ UNCHANGED <<clock, lock, cutoff>>

\* verify_signed_request, lines 58-75: the client, freshness and signature
\* checks; they read the clock once and touch no other shared state.
Verify(p, c, n, t, s) ==
    /\ pc[p] = "idle"
    /\ req' = [req EXCEPT ![p] = [client |-> c, nonce |-> n, ts |-> t, sig |-> s]]
    /\ readNow' = [readNow EXCEPT ![p] = clock]
    /\ result' = [result EXCEPT ![p] = VerifyChecks(c, n, t, s, clock)]
    /\ pc' = [pc EXCEPT ![p] = IF VerifyChecks(c, n, t, s, clock) = "pending" THEN "now" ELSE "done"]
    /\ UNCHANGED <<clock, seen, lock, cutoff>>

\* validate_and_store, lines 34-35: now_ts and cutoff.  The caller's `now`
\* is not read again, so it is dropped here.
StoreNow(p) ==
    /\ pc[p] = "now"
    /\ cutoff' = [cutoff EXCEPT ![p] = NowTs(clock) - RequestTtl]
    /\ readNow' = [readNow EXCEPT ![p] = 0]
    /\ pc' = [pc EXCEPT ![p] = "lock"]
    /\ UNCHANGED <<clock, seen, lock, req, result>>

\* A lock that never blocks.
LockIgnored(l) == TRUE

\* threading.Lock: acquire succeeds only while nobody holds the lock.
LockFree(l) == l = "free"

\* lines 36-40: take the lock, evict, look the nonce up.  The raise leaves
\* the with block and frees the lock; otherwise the thread goes on to the
\* insert still holding it.
Lookup(p) ==
    /\ pc[p] = "lock"
    /\ LockFree(lock)
    /\ seen' = Evict(seen, cutoff[p], MaxEntries)
    /\ IF IsReplay(seen', req[p].nonce, cutoff[p])
       THEN /\ result' = [result EXCEPT ![p] = NonceUsed]
            /\ pc' = [pc EXCEPT ![p] = "done"]
            /\ lock' = lock
       ELSE /\ pc' = [pc EXCEPT ![p] = "put"]
            /\ lock' = p
            /\ UNCHANGED result
    /\ UNCHANGED <<clock, req, readNow, cutoff>>

\* line 42: the insert, then the with block ends.
PutStep(p) ==
    /\ pc[p] = "put"
    /\ seen' = Put(seen, req[p].nonce, req[p].ts)
    /\ result' = [result EXCEPT ![p] = "accepted"]
    /\ lock' = IF lock = p THEN "free" ELSE lock
    /\ pc' = [pc EXCEPT ![p] = "done"]
    /\ UNCHANGED <<clock, req, readNow, cutoff>>

\* The call has returned or raised; the thread takes the next request.
Return(p) ==
    /\ pc[p] = "done"
    /\ pc' = [pc EXCEPT ![p] = "idle"]
    /\ req' = [req EXCEPT ![p] = NoReq]
    /\ readNow' = [readNow EXCEPT ![p] = 0]
    /\ cutoff' = [cutoff EXCEPT ![p] = 0]
    /\ result' = [result EXCEPT ![p] = "pending"]
    /\ UNCHANGED <<clock, seen, lock>>

\* ------------------------------------------------------ Spec: sequential
\* One thread serving one request after another, with every client id,
\* nonce, timestamp and signature of the input sets.
Main == "t1"

Request == \E c \in Clients, n \in Nonces, t \in Timestamps, s \in Signatures : Verify(Main, c, n, t, s)

Next ==
    \/ Tick
    \/ Request /\ UNCHANGED <<authHist, sessVars, sessHist, guardVars, flowVars, flowHist, metricVars, httpsVars, dashVars>>
    \/ StoreNow(Main) /\ UNCHANGED <<authHist, sessVars, sessHist, guardVars, flowVars, flowHist, metricVars, httpsVars, dashVars>>
    \/ Lookup(Main) /\ UNCHANGED <<authHist, sessVars, sessHist, guardVars, flowVars, flowHist, metricVars, httpsVars, dashVars>>
    \/ PutStep(Main) /\ UNCHANGED <<authHist, sessVars, sessHist, guardVars, flowVars, flowHist, metricVars, httpsVars, dashVars>>
    \/ Return(Main) /\ UNCHANGED <<authHist, sessVars, sessHist, guardVars, flowVars, flowHist, metricVars, httpsVars, dashVars>>

Spec == Init /\ [][Next]_vars

\* ---------------------------------------------------- SpecConc: threads
\* Several threads serving correctly signed requests of the expected
\* client concurrently, with history variables recording what happened to
\* each nonce's entry.
InStore == {"lock", "put"}

VerifyH(p, n, t) ==
    /\ Verify(p, ClientId, n, t, Hmac(ClientSecret, Payload(ClientId, n, t)))
    /\ prior' = [prior EXCEPT ![p] = hist[n].fate # "never" /\ hist[n].ts = t]
    /\ UNCHANGED <<hist, overlap>>

StoreNowH(p) ==
    /\ StoreNow(p)
    /\ overlap' = [overlap EXCEPT ![p] = {q \in Procs \ {p} : pc[q] \in InStore /\ req[q].nonce = req[p].nonce}]
    /\ UNCHANGED <<hist, prior>>

LookupH(p) ==
    /\ Lookup(p)
    /\ hist' = [n \in Nonces |->
                  IF Has(seen, n) /\ ~Has(seen', n)
                  THEN [hist[n] EXCEPT !.fate = IF Get(seen, n) < cutoff[p] THEN "ttl" ELSE "cap"]
                  ELSE hist[n]]
    /\ UNCHANGED <<prior, overlap>>

PutStepH(p) ==
    /\ PutStep(p)
    /\ hist' = [hist EXCEPT ![req[p].nonce] = [ts |-> req[p].ts, fate |-> "stored"]]
    /\ UNCHANGED <<prior, overlap>>

ReturnH(p) ==
    /\ Return(p)
    /\ prior' = [prior EXCEPT ![p] = FALSE]
    /\ overlap' = [q \in Procs |-> IF q = p THEN {} ELSE overlap[q] \ {p}]
    /\ UNCHANGED hist

NextConc ==
    \/ Tick
    \/ \E p \in Procs, n \in Nonces, t \in Timestamps : VerifyH(p, n, t) /\ UNCHANGED <<sessVars, sessHist, guardVars, flowVars, flowHist, metricVars, httpsVars, dashVars>>
    \/ \E p \in Procs : StoreNowH(p) /\ UNCHANGED <<sessVars, sessHist, guardVars, flowVars, flowHist, metricVars, httpsVars, dashVars>>
    \/ \E p \in Procs : LookupH(p) /\ UNCHANGED <<sessVars, sessHist, guardVars, flowVars, flowHist, metricVars, httpsVars, dashVars>>
    \/ \E p \in Procs : PutStepH(p) /\ UNCHANGED <<sessVars, sessHist, guardVars, flowVars, flowHist, metricVars, httpsVars, dashVars>>
    \/ \E p \in Procs : ReturnH(p) /\ UNCHANGED <<sessVars, sessHist, guardVars, flowVars, flowHist, metricVars, httpsVars, dashVars>>

SpecConc == Init /\ [][NextConc]_vars

\* ================================================= EphemeralSessionCache
\* time.monotonic(): a clock of its own, which never goes back.
Monotonic == mono

\* The monotonic clock advances.
MonoTick ==
    /\ mono < MaxMono
    /\ mono' = mono + 1
    /\ UNCHANGED <<clock, store, spc, call, sres>>

SortRankS(s, i) ==
    Cardinality({j \in 1..Len(s) : s[j].exp < s[i].exp \/ (s[j].exp = s[i].exp /\ j <= i)})

\* expires_at <= now
IsExpiredS(e, now) == e.exp <= now

ExpirySweep(s, now) == SelectSeq(s, LAMBDA e : ~IsExpiredS(e, now))

\* An overflow drop that removes the entries expiring last.
DropNewestS(s, max) ==
    IF Len(s) <= max THEN s
    ELSE Without(s, {i \in 1..Len(s) : SortRankS(s, i) > max}, 1)

\* _evict_expired, lines 48-54
DropOldestS(s, max) ==
    IF Len(s) <= max THEN s
    ELSE LET over == Len(s) - max
         IN  Without(s, {i \in 1..Len(s) : SortRankS(s, i) <= over}, 1)

\* _evict_expired(now)
EvictExpired(s, now, max) == DropOldestS(ExpirySweep(s, now), max)

HasS(s, id) == \E i \in 1..Len(s) : s[i].id = id
GetS(s, id) == LET i == CHOOSE i \in 1..Len(s) : s[i].id = id IN s[i]

\* An insert that leaves an entry already stored for the id as it is.
PutSKeepsFirst(s, id, exp, payload) ==
    IF HasS(s, id) THEN s
    ELSE Append(s, [id |-> id, exp |-> exp, payload |-> payload])

\* self._store[session_id] = (expires_at, dict(payload))
PutS(s, id, exp, payload) ==
    IF HasS(s, id)
    THEN [i \in 1..Len(s) |-> IF s[i].id = id THEN [id |-> id, exp |-> exp, payload |-> payload] ELSE s[i]]
    ELSE Append(s, [id |-> id, exp |-> exp, payload |-> payload])

\* A lookup that leaves the entry in place.
PeekS(s, id) == s

\* self._store.pop(session_id, None): what is left in the store
PopS(s, id) == SelectSeq(s, LAMBDA e : e.id # id)

\* A result that takes the expiry test the wrong way round.
PopResultInverted(s, id, now) ==
    IF ~HasS(s, id) THEN "None"
    ELSE IF GetS(s, id).exp > now THEN "None"
    ELSE GetS(s, id).payload

\* lines 66-73: the record found, then the expiry test on it
PopResult(s, id, now) ==
    IF ~HasS(s, id) THEN "None"
    ELSE IF GetS(s, id).exp <= now THEN "None"
    ELSE GetS(s, id).payload

\* set, line 57: expires_at = monotonic() + ttl_seconds
SetBegin(p, id, payload, ttl) ==
    /\ spc[p] = "idle"
    /\ call' = [call EXCEPT ![p] = [op |-> "set", id |-> id, payload |-> payload,
                                    exp |-> Monotonic + ttl, now |-> 0]]
    /\ spc' = [spc EXCEPT ![p] = "locked"]
    /\ UNCHANGED <<clock, mono, store, sres>>

\* A set that inserts first and evicts afterwards.
SetStoreInsertsFirst(p) ==
    /\ spc[p] = "locked" /\ call[p].op = "set"
    /\ store' = EvictExpired(PutS(store, call[p].id, call[p].exp, call[p].payload), Monotonic, MaxSessions)
    /\ spc' = [spc EXCEPT ![p] = "idle"]
    /\ call' = [call EXCEPT ![p] = NoCall]
    /\ UNCHANGED <<clock, mono, sres>>

\* set, lines 58-60, under the lock: evict with a fresh clock reading,
\* insert; set returns nothing, the thread takes the next operation.
SetStore(p) ==
    /\ spc[p] = "locked" /\ call[p].op = "set"
    /\ store' = PutS(EvictExpired(store, Monotonic, MaxSessions), call[p].id, call[p].exp, call[p].payload)
    /\ spc' = [spc EXCEPT ![p] = "idle"]
    /\ call' = [call EXCEPT ![p] = NoCall]
    /\ UNCHANGED <<clock, mono, sres>>

\* pop, line 63: now = monotonic()
PopBegin(p, id) ==
    /\ spc[p] = "idle"
    /\ call' = [call EXCEPT ![p] = [op |-> "pop", id |-> id, payload |-> "None", exp |-> 0, now |-> Monotonic]]
    /\ spc' = [spc EXCEPT ![p] = "locked"]
    /\ UNCHANGED <<clock, mono, store, sres>>

\* A pop that forgets expiry: no sweep, and the record is returned whatever
\* its expires_at.
PopTakeIgnoresExpiry(p) ==
    /\ spc[p] = "locked" /\ call[p].op = "pop"
    /\ store' = PopS(store, call[p].id)
    /\ sres' = [sres EXCEPT ![p] = IF HasS(store, call[p].id) THEN GetS(store, call[p].id).payload ELSE "None"]
    /\ spc' = [spc EXCEPT ![p] = "done"]
    /\ call' = [call EXCEPT ![p].now = 0]
    /\ UNCHANGED <<clock, mono>>

\* pop, lines 64-73: under the lock evict and take the record; then the
\* expiry test on the record taken, which touches no shared state and is
\* the last use of `now`.
PopTake(p) ==
    /\ spc[p] = "locked" /\ call[p].op = "pop"
    /\ store' = PopS(EvictExpired(store, call[p].now, MaxSessions), call[p].id)
    /\ sres' = [sres EXCEPT ![p] = PopResult(EvictExpired(store, call[p].now, MaxSessions), call[p].id, call[p].now)]
    /\ spc' = [spc EXCEPT ![p] = "done"]
    /\ call' = [call EXCEPT ![p].now = 0]
    /\ UNCHANGED <<clock, mono>>

\* The operation has returned; the thread takes the next one.
SessReturn(p) ==
    /\ spc[p] = "done"
    /\ spc' = [spc EXCEPT ![p] = "idle"]
    /\ call' = [call EXCEPT ![p] = NoCall]
    /\ sres' = [sres EXCEPT ![p] = "None"]
    /\ UNCHANGED <<clock, mono, store>>

\* ------------------------------------------------- SpecSession: threads
\* What eviction with clock reading `now` does to the history of the ids it
\* removes: an entry at or past its expiry was swept, a live one was dropped
\* for capacity.
Evicted(h, s, now) ==
    [i \in SessionIds |->
        IF HasS(s, i) /\ ~HasS(EvictExpired(s, now, MaxSessions), i)
        THEN [exp |-> GetS(s, i).exp, payload |-> "None",
              fate |-> IF GetS(s, i).exp <= now THEN "swept" ELSE "capped",
              over |-> GetS(s, i).exp > now /\ h[i].over]
        ELSE h[i]]

\* The insert replaces an entry of the id that holds another payload.
Overwrites(s, id, payload) == HasS(s, id) /\ GetS(s, id).payload # payload

SetBeginH(p, id, payload, ttl) ==
    /\ SetBegin(p, id, payload, ttl)
    /\ UNCHANGED sessHist

SetStoreH(p) ==
    /\ SetStore(p)
    /\ shist' = [Evicted(shist, store, Monotonic) EXCEPT
                   ![call[p].id] = [exp |-> call[p].exp, payload |-> call[p].payload, fate |-> "stored",
                                    over |-> Overwrites(EvictExpired(store, Monotonic, MaxSessions),
                                                        call[p].id, call[p].payload)]]
    /\ takes' = [takes EXCEPT ![call[p].id] = 0]
    /\ UNCHANGED found

PopBeginH(p, id) ==
    /\ PopBegin(p, id)
    /\ UNCHANGED sessHist

\* found: the latest set of the id as the pop met it at its lookup, with
\* `exp` reduced to whether the pop's clock reading is before it.
PopTakeH(p) ==
    /\ PopTake(p)
    /\ found' = [found EXCEPT ![p] =
                   LET h == Evicted(shist, store, call[p].now)[call[p].id]
                   IN  [exp |-> IF call[p].now < h.exp THEN 1 ELSE 0, payload |-> h.payload,
                        fate |-> h.fate, over |-> h.over]]
    /\ shist' = [Evicted(shist, store, call[p].now) EXCEPT
                   ![call[p].id] = IF @.fate = "never" THEN @
                                   ELSE [exp |-> 0, payload |-> "None", fate |-> "popped", over |-> FALSE]]
    /\ takes' = [takes EXCEPT ![call[p].id] = IF sres'[p] # "None" /\ @ < 2 THEN @ + 1 ELSE @]

SessReturnH(p) ==
    /\ SessReturn(p)
    /\ found' = [found EXCEPT ![p] = NoSet]
    /\ UNCHANGED <<shist, takes>>

NextSession ==
    \/ MonoTick /\ UNCHANGED <<authVars, authHist, sessHist, guardVars, flowVars, flowHist, metricVars, httpsVars, dashVars>>
    \/ \E p \in Procs, i \in SessionIds, d \in SessionPayloads, t \in Ttls :
          SetBeginH(p, i, d, t) /\ UNCHANGED <<authVars, authHist, guardVars, flowVars, flowHist, metricVars, httpsVars, dashVars>>
    \/ \E p \in Procs : SetStoreH(p) /\ UNCHANGED <<authVars, authHist, guardVars, flowVars, flowHist, metricVars, httpsVars, dashVars>>
    \/ \E p \in Procs, i \in SessionIds : PopBeginH(p, i) /\ UNCHANGED <<authVars, authHist, guardVars, flowVars, flowHist, metricVars, httpsVars, dashVars>>
    \/ \E p \in Procs : PopTakeH(p) /\ UNCHANGED <<authVars, authHist, guardVars, flowVars, flowHist, metricVars, httpsVars, dashVars>>
    \/ \E p \in Procs : SessReturnH(p) /\ UNCHANGED <<authVars, authHist, guardVars, flowVars, flowHist, metricVars, httpsVars, dashVars>>

SpecSession == Init /\ [][NextSession]_vars

\* The cache used by one thread, with ttl_seconds from 1 to LongTtl, so that
\* live entries differ in expires_at.
NextCache ==
    \/ MonoTick /\ UNCHANGED <<authVars, authHist, sessHist, guardVars, flowVars, flowHist, metricVars, httpsVars, dashVars>>
    \/ \E i \in SessionIds, d \in SessionPayloads, t \in 1..LongTtl :
          SetBeginH(Main, i, d, t) /\ UNCHANGED <<authVars, authHist, guardVars, flowVars, flowHist, metricVars, httpsVars, dashVars>>
    \/ SetStoreH(Main) /\ UNCHANGED <<authVars, authHist, guardVars, flowVars, flowHist, metricVars, httpsVars, dashVars>>
    \/ \E i \in SessionIds : PopBeginH(Main, i) /\ UNCHANGED <<authVars, authHist, guardVars, flowVars, flowHist, metricVars, httpsVars, dashVars>>
    \/ PopTakeH(Main) /\ UNCHANGED <<authVars, authHist, guardVars, flowVars, flowHist, metricVars, httpsVars, dashVars>>
    \/ SessReturnH(Main) /\ UNCHANGED <<authVars, authHist, guardVars, flowVars, flowHist, metricVars, httpsVars, dashVars>>

SpecCache == Init /\ [][NextCache]_vars

\* ====================================================== StateReplayGuard
\* expired = [... if seen_at < cutoff]; pop each
\* A sweep that also removes the entry exactly at the cutoff.
GuardSweepAtBoundary(s, cut) == SelectSeq(s, LAMBDA e : ~(e.at <= cut))

\* lines 92-94
GuardSweep(s, cut) == SelectSeq(s, LAMBDA e : ~(e.at < cut))

\* state in self._seen
HasG(s, st) == \E i \in 1..Len(s) : s[i].state = st
GetG(s, st) == LET i == CHOOSE i \in 1..Len(s) : s[i].state = st IN s[i].at

\* self._seen[state] = now
Mark(s, st, now) ==
    IF HasG(s, st)
    THEN [i \in 1..Len(s) |-> IF s[i].state = st THEN [state |-> st, at |-> now] ELSE s[i]]
    ELSE Append(s, [state |-> st, at |-> now])

\* A membership test that lets a repeat through and has it marked again.
SeenNever(s, st) == FALSE

\* line 96: state in self._seen
Seen(s, st) == HasG(s, st)

NoGCall == [state |-> "", now |-> 0]
NoGHist == [at |-> 0, fate |-> "never"]

\* lines 89-90: now = monotonic(); cutoff = now - self._ttl_seconds
GuardBegin(p, st) ==
    /\ gpc[p] = "idle"
    /\ gcall' = [gcall EXCEPT ![p] = [state |-> st, now |-> Monotonic]]
    /\ gpc' = [gpc EXCEPT ![p] = "lock"]
    /\ UNCHANGED <<gseen, glock, gres>>

\* A lock that never blocks.
GuardLockIgnored(l) == TRUE

\* threading.Lock: acquire succeeds only while nobody holds the lock.
GuardLockFree(l) == l = "free"

\* lines 91-97: take the lock, sweep, test membership.  The raise leaves the
\* with block and frees the lock; otherwise the thread goes on to the insert
\* with the lock held.
GuardLookup(p) ==
    /\ gpc[p] = "lock"
    /\ GuardLockFree(glock)
    /\ gseen' = GuardSweep(gseen, gcall[p].now - GuardTtl)
    /\ IF Seen(gseen', gcall[p].state)
       THEN /\ gres' = [gres EXCEPT ![p] = StateReplayed]
            /\ gpc' = [gpc EXCEPT ![p] = "done"]
            /\ glock' = glock
       ELSE /\ gpc' = [gpc EXCEPT ![p] = "mark"]
            /\ glock' = p
            /\ UNCHANGED gres
    /\ UNCHANGED gcall

\* line 98: the insert, then the with block ends.
GuardMark(p) ==
    /\ gpc[p] = "mark"
    /\ gseen' = Mark(gseen, gcall[p].state, gcall[p].now)
    /\ glock' = IF glock = p THEN "free" ELSE glock
    /\ gres' = [gres EXCEPT ![p] = "ok"]
    /\ gpc' = [gpc EXCEPT ![p] = "done"]
    /\ UNCHANGED gcall

\* validate_and_mark has returned or raised; the thread takes the next call.
GuardReturn(p) ==
    /\ gpc[p] = "done"
    /\ gpc' = [gpc EXCEPT ![p] = "idle"]
    /\ gcall' = [gcall EXCEPT ![p] = NoGCall]
    /\ gres' = [gres EXCEPT ![p] = "pending"]
    /\ UNCHANGED <<gseen, glock>>

\* --------------------------------------------------- SpecGuard: threads
\* The monotonic clock advances, far enough for an entry to outlive
\* ttl_seconds.
GuardTick ==
    /\ mono < MaxGuardMono
    /\ mono' = mono + 1
    /\ UNCHANGED <<clock, store, spc, call, sres>>

InGuard == {"lock", "mark"}

\* gprior: the state has an entry whose first-seen instant is less than
\* ttl_seconds before this call's clock reading.
GuardBeginH(p, st) ==
    /\ GuardBegin(p, st)
    /\ gprior' = [gprior EXCEPT ![p] = ghist[st].fate = "stored" /\ Monotonic - ghist[st].at < GuardTtl]
    /\ goverlap' = [goverlap EXCEPT ![p] = {q \in Procs \ {p} : gpc[q] \in InGuard /\ gcall[q].state = st}]
    /\ UNCHANGED ghist

GuardLookupH(p) ==
    /\ GuardLookup(p)
    /\ ghist' = [st \in States |->
                   IF HasG(gseen, st) /\ ~HasG(gseen', st)
                   THEN [ghist[st] EXCEPT !.fate = "swept"]
                   ELSE ghist[st]]
    /\ UNCHANGED <<gprior, goverlap>>

GuardMarkH(p) ==
    /\ GuardMark(p)
    /\ ghist' = [ghist EXCEPT ![gcall[p].state] = [at |-> gcall[p].now, fate |-> "stored"]]
    /\ UNCHANGED <<gprior, goverlap>>

GuardReturnH(p) ==
    /\ GuardReturn(p)
    /\ gprior' = [gprior EXCEPT ![p] = FALSE]
    /\ goverlap' = [q \in Procs |-> IF q = p THEN {} ELSE goverlap[q] \ {p}]
    /\ UNCHANGED ghist

NextGuard ==
    \/ GuardTick /\ UNCHANGED <<authVars, authHist, sessHist, guardVars, flowVars, flowHist, metricVars, httpsVars, dashVars>>
    \/ \E p \in Procs, st \in States : GuardBeginH(p, st) /\ UNCHANGED <<clock, authVars, authHist, sessVars, sessHist, flowVars, flowHist, metricVars, httpsVars, dashVars>>
    \/ \E p \in Procs : GuardLookupH(p) /\ UNCHANGED <<clock, authVars, authHist, sessVars, sessHist, flowVars, flowHist, metricVars, httpsVars, dashVars>>
    \/ \E p \in Procs : GuardMarkH(p) /\ UNCHANGED <<clock, authVars, authHist, sessVars, sessHist, flowVars, flowHist, metricVars, httpsVars, dashVars>>
    \/ \E p \in Procs : GuardReturnH(p) /\ UNCHANGED <<clock, authVars, authHist, sessVars, sessHist, flowVars, flowHist, metricVars, httpsVars, dashVars>>

SpecGuard == Init /\ [][NextGuard]_vars

\* ------------------------------------------------ the handoff: actions
\* uuid4(): an id never returned before; the ids are taken in order
Uuid4 == IF <<"u", "1">> \notin issued THEN <<"u", "1">> ELSE <<"u", "2">>

\* validate_and_mark as one uninterrupted call: the store it leaves, and
\* whether it raised
GuardAfter(s, st, now) ==
    IF Seen(GuardSweep(s, now - GuardTtl), st)
    THEN GuardSweep(s, now - GuardTtl)
    ELSE Mark(GuardSweep(s, now - GuardTtl), st, now)
GuardRaises(s, st, now) == Seen(GuardSweep(s, now - GuardTtl), st)

\* lines 178-192: what the first part of the callback answers, "await" when
\* it goes on to the exchange
CallbackFirst(state, code, g, now, cfg) ==
    IF ~StateWellFormed(state) THEN RedirectError("Invalid OAuth state")
    ELSE IF GuardRaises(g, Normalized(state), now) THEN RedirectError("Invalid OAuth state")
    ELSE IF OrEmpty(code) = <<>> THEN RedirectError("Missing authorization code")
    ELSE IF ~cfg THEN RedirectError("Server OAuth configuration is incomplete")
    ELSE Resp(0, "await", "", <<>>, "None")

\* lines 213-217: str(error_description or message or error) of the body
ErrorText(b) == IF b.error # Absent THEN b.error ELSE "None"

\* An error redirect that quotes the access_token of the body.
CallbackSecondQuotesToken(up) ==
    IF up.kind = "network" THEN RedirectError("Failed to reach Notion API")
    ELSE IF up.status >= 400
         THEN IF ParseBody(up.body).empty THEN RedirectError("Notion OAuth failed: HTTP")
              ELSE IF ParseBody(up.body).type = "dict"
                   THEN [RedirectError("Notion OAuth failed") EXCEPT !.detail = ParseBody(up.body).token]
              ELSE ServerError
    ELSE IF ParseBody(up.body).type # "dict" THEN RedirectError("Invalid response from Notion")
    ELSE IF ~TokenUsable(ParseBody(up.body).token) THEN RedirectError("Notion response missing access_token")
    ELSE Resp(0, "store", "", <<>>, "None")

\* lines 202-232: what the second part of the callback answers, "store"
\* when it goes on to create the session
CallbackSecond(up) ==
    IF up.kind = "network" THEN RedirectError("Failed to reach Notion API")
    ELSE IF up.status >= 400
         THEN IF ParseBody(up.body).empty THEN RedirectError("Notion OAuth failed: HTTP")
              ELSE IF ParseBody(up.body).type = "dict"
                   THEN [RedirectError("Notion OAuth failed") EXCEPT !.detail = ErrorText(ParseBody(up.body))]
              ELSE ServerError
    ELSE IF ParseBody(up.body).type # "dict" THEN RedirectError("Invalid response from Notion")
    ELSE IF ~TokenUsable(ParseBody(up.body).token) THEN RedirectError("Notion response missing access_token")
    ELSE Resp(0, "store", "", <<>>, "None")

\* A callback that records the state before it has validated it.
CallbackStartMarksFirst(t, state, code, cfg) ==
    /\ fpc[t] = "idle"
    /\ freq' = [freq EXCEPT ![t] = [NoFReq EXCEPT !.kind = "callback", !.state = state]]
    /\ gseen' = Mark(gseen, Normalized(state), Monotonic)
    /\ fresp' = [fresp EXCEPT ![t] = CallbackFirst(state, code, gseen, Monotonic, cfg)]
    /\ fpc' = [fpc EXCEPT ![t] = IF CallbackFirst(state, code, gseen, Monotonic, cfg).kind = "await"
                                 THEN "await" ELSE "done"]
    /\ fsent' = [fsent EXCEPT ![t] = IF CallbackFirst(state, code, gseen, Monotonic, cfg).kind = "await"
                                     THEN ExchangeMessage(OrEmpty(code), "callback_uri", NotionClientId,
                                                          NotionClientSecret, "notion_token_url")
                                     ELSE NoMessage]
    /\ UNCHANGED <<store, issued>>

\* A callback that marks the state only once the code and the configuration
\* have passed.
CallbackStartMarksLate(t, state, code, cfg) ==
    /\ fpc[t] = "idle"
    /\ freq' = [freq EXCEPT ![t] = [NoFReq EXCEPT !.kind = "callback", !.state = state]]
    /\ gseen' = IF StateWellFormed(state) /\ OrEmpty(code) # <<>> /\ cfg
                THEN GuardAfter(gseen, Normalized(state), Monotonic) ELSE gseen
    /\ fresp' = [fresp EXCEPT ![t] = CallbackFirst(state, code, gseen, Monotonic, cfg)]
    /\ fpc' = [fpc EXCEPT ![t] = IF CallbackFirst(state, code, gseen, Monotonic, cfg).kind = "await"
                                 THEN "await" ELSE "done"]
    /\ fsent' = [fsent EXCEPT ![t] = IF CallbackFirst(state, code, gseen, Monotonic, cfg).kind = "await"
                                     THEN ExchangeMessage(OrEmpty(code), "callback_uri", NotionClientId,
                                                          NotionClientSecret, "notion_token_url")
                                     ELSE NoMessage]
    /\ UNCHANGED <<store, issued>>

\* notion_oauth_callback, lines 178-192, up to the await of the exchange
CallbackStart(t, state, code, cfg) ==
    /\ fpc[t] = "idle"
    /\ freq' = [freq EXCEPT ![t] = [NoFReq EXCEPT !.kind = "callback", !.state = state]]
    /\ gseen' = IF StateWellFormed(state) THEN GuardAfter(gseen, Normalized(state), Monotonic) ELSE gseen
    /\ fresp' = [fresp EXCEPT ![t] = CallbackFirst(state, code, gseen, Monotonic, cfg)]
    /\ fpc' = [fpc EXCEPT ![t] = IF CallbackFirst(state, code, gseen, Monotonic, cfg).kind = "await"
                                 THEN "await" ELSE "done"]
    /\ fsent' = [fsent EXCEPT ![t] = IF CallbackFirst(state, code, gseen, Monotonic, cfg).kind = "await"
                                     THEN ExchangeMessage(OrEmpty(code), "callback_uri", NotionClientId,
                                                          NotionClientSecret, "notion_token_url")
                                     ELSE NoMessage]
    /\ UNCHANGED <<store, issued>>

\* A callback that creates the session whatever the provider answered.
CallbackResumeStoresAlways(t, up, sid) ==
    /\ fpc[t] = "await"
    /\ sid = Uuid4 /\ sid \notin issued
    /\ store' = PutS(EvictExpired(store, Monotonic, MaxSessions), sid, Monotonic + SessionTtl, up.body.token)
    /\ issued' = issued \cup {sid}
    /\ fresp' = [fresp EXCEPT ![t] = IF CallbackSecond(up).kind = "store" THEN RedirectFinish(sid)
                                     ELSE CallbackSecond(up)]
    /\ fpc' = [fpc EXCEPT ![t] = "done"]
    /\ UNCHANGED <<gseen, freq, fsent>>

\* notion_oauth_callback, lines 194-249, from the return of the exchange:
\* the checks on the answer, then uuid4() and _SESSION_CACHE.set
CallbackResume(t, up, sid) ==
    /\ fpc[t] = "await"
    /\ CallbackSecond(up).kind = "store" => sid = Uuid4 /\ sid \notin issued
    /\ IF CallbackSecond(up).kind = "store"
       THEN /\ store' = PutS(EvictExpired(store, Monotonic, MaxSessions), sid, Monotonic + SessionTtl,
                             ParseBody(up.body).token)
            /\ issued' = issued \cup {sid}
            /\ fresp' = [fresp EXCEPT ![t] = RedirectFinish(sid)]
       ELSE /\ fresp' = [fresp EXCEPT ![t] = CallbackSecond(up)]
            /\ UNCHANGED <<store, issued>>
    /\ fpc' = [fpc EXCEPT ![t] = "done"]
    /\ UNCHANGED <<gseen, freq, fsent>>

\* A finalize that tells a session id it never issued from one it did.
FinalizeTellsUnknown(t, raw) ==
    /\ fpc[t] = "idle"
    /\ freq' = [freq EXCEPT ![t] = [NoFReq EXCEPT !.kind = "finalize", !.sid = raw]]
    /\ IF Strip(raw) = <<>>
       THEN /\ fresp' = [fresp EXCEPT ![t] = InvalidSession]
            /\ UNCHANGED store
       ELSE /\ store' = PopS(EvictExpired(store, Monotonic, MaxSessions), Strip(raw))
            /\ fresp' = [fresp EXCEPT ![t] =
                   IF Strip(raw) \notin issued THEN Resp(400, "session_unknown", "Session not found", <<>>, "None")
                   ELSE IF PopResult(EvictExpired(store, Monotonic, MaxSessions), Strip(raw), Monotonic) = "None"
                        THEN SessionExpired
                        ELSE TokenPayload(PopResult(EvictExpired(store, Monotonic, MaxSessions), Strip(raw), Monotonic))]
    /\ fpc' = [fpc EXCEPT ![t] = "done"]
    /\ UNCHANGED <<gseen, issued, fsent>>

\* finalize_notion_oauth, lines 257-278
Finalize(t, raw) ==
    /\ fpc[t] = "idle"
    /\ freq' = [freq EXCEPT ![t] = [NoFReq EXCEPT !.kind = "finalize", !.sid = raw]]
    /\ IF Strip(raw) = <<>>
       THEN /\ fresp' = [fresp EXCEPT ![t] = InvalidSession]
            /\ UNCHANGED store
       ELSE /\ store' = PopS(EvictExpired(store, Monotonic, MaxSessions), Strip(raw))
            /\ fresp' = [fresp EXCEPT ![t] =
                   IF PopResult(EvictExpired(store, Monotonic, MaxSessions), Strip(raw), Monotonic) = "None"
                   THEN SessionExpired
                   ELSE TokenPayload(PopResult(EvictExpired(store, Monotonic, MaxSessions), Strip(raw), Monotonic))]
    /\ fpc' = [fpc EXCEPT ![t] = "done"]
    /\ UNCHANGED <<gseen, issued, fsent>>

\* The response has been sent; the task ends.
FlowReturn(t) ==
    /\ fpc[t] = "done"
    /\ fpc' = [fpc EXCEPT ![t] = "idle"]
    /\ freq' = [freq EXCEPT ![t] = NoFReq]
    /\ fresp' = [fresp EXCEPT ![t] = NoResp]
    /\ fsent' = [fsent EXCEPT ![t] = NoMessage]
    /\ UNCHANGED <<gseen, store, issued>>

\* ------------------------------------------------ SpecFlow: the handoff
\* What an eviction with clock reading `now` does to the history of the
\* sessions it removes: past the expiry they have expired, otherwise they
\* were dropped for capacity.
FlowEvicted(h, s, now) ==
    [i \in FlowIds |->
        IF HasS(s, i) /\ ~HasS(EvictExpired(s, now, MaxSessions), i)
        THEN IF GetS(s, i).exp <= now THEN "expired" ELSE "dropped"
        ELSE h[i]]

\* What has become of a session id when finalize asks for it.
FlowWhy(h, s, sid, now) ==
    IF sid \notin issued THEN "never"
    ELSE IF FlowEvicted(h, s, now)[sid] = "stored" THEN "live"
    ELSE FlowEvicted(h, s, now)[sid]

CallbackStartH(t, state, code, cfg) ==
    /\ CallbackStart(t, state, code, cfg)
    /\ ftouch' = [ftouch EXCEPT ![t] = IF gseen' # gseen THEN {"guard"} ELSE {}]
    /\ freach' = IF fpc'[t] = "await" THEN [freach EXCEPT ![Normalized(state)] = {Monotonic}] ELSE freach
    /\ UNCHANGED <<fhist, fwhy>>

CallbackResumeH(t, up, sid) ==
    /\ CallbackResume(t, up, sid)
    /\ ftouch' = [ftouch EXCEPT ![t] = IF store' # store THEN @ \cup {"cache"} ELSE @]
    /\ fhist' = IF store' # store
                THEN [FlowEvicted(fhist, store, Monotonic) EXCEPT ![sid] = "stored"]
                ELSE fhist
    /\ UNCHANGED <<fwhy, freach>>

FinalizeH(t, raw) ==
    /\ Finalize(t, raw)
    /\ fwhy' = [fwhy EXCEPT ![t] = IF Strip(raw) = <<>> THEN "none"
                                   ELSE FlowWhy(fhist, store, Strip(raw), Monotonic)]
    /\ fhist' = IF Strip(raw) = <<>> THEN fhist
                ELSE [i \in FlowIds |->
                        IF i = Strip(raw) /\ FlowEvicted(fhist, store, Monotonic)[i] = "stored"
                        THEN "consumed"
                        ELSE FlowEvicted(fhist, store, Monotonic)[i]]
    /\ UNCHANGED <<ftouch, freach>>

FlowReturnH(t) ==
    /\ FlowReturn(t)
    /\ fwhy' = [fwhy EXCEPT ![t] = "none"]
    /\ ftouch' = [ftouch EXCEPT ![t] = {}]
    /\ UNCHANGED <<fhist, freach>>

flowFrame == <<clock, mono, authVars, authHist, spc, call, sres, sessHist,
               glock, gpc, gcall, gres, ghist, gprior, goverlap, xchg, metricVars, httpsVars, dashVars>>

NextFlow ==
    \/ MonoTick /\ UNCHANGED <<authVars, authHist, sessHist, guardVars, flowVars, flowHist, metricVars, httpsVars, dashVars>>
    \/ \E t \in Procs, state \in RawStates, code \in Codes, cfg \in NotionConfigured : CallbackStartH(t, state, code, cfg) /\ UNCHANGED flowFrame
    \/ \E t \in Procs, up \in Upstream, sid \in FlowIds : CallbackResumeH(t, up, sid) /\ UNCHANGED flowFrame
    \/ \E t \in Procs, raw \in RawSessionIds : FinalizeH(t, raw) /\ UNCHANGED flowFrame
    \/ \E t \in Procs : FlowReturnH(t) /\ UNCHANGED flowFrame

SpecFlow == Init /\ [][NextFlow]_vars

\* ==================================================== key endpoint
\* issue_ai_key is a coroutine without an await: one request is verified
\* and answered before the event loop takes the next.

\* settings.api_key
ApiKey == "sk-key"
NoKey == "None"

\* An endpoint that answers with the key whatever the verification said.
KeyResponseAlways(res, n) ==
    [status |-> 200, api_key |-> ApiKey, nonce |-> n, detail |-> ""]

\* issue_ai_key, lines 32-47: the HTTPException of verify_signed_request
\* becomes the 401 answer with its detail, otherwise the KeyResponse
KeyResponse(res, n) ==
    IF res = "accepted"
    THEN [status |-> 200, api_key |-> ApiKey, nonce |-> n, detail |-> ""]
    ELSE [status |-> 401, api_key |-> NoKey, nonce |-> <<>>, detail |-> res]

\* What the endpoint answers to the request of p once the call is over.
KeyAnswer(p) == KeyResponse(result[p], req[p].nonce)

\* A request arrives at the endpoint; prior: the same nonce and timestamp
\* were accepted before.
KeyRequestH(p, c, n, t, s) ==
    /\ Verify(p, c, n, t, s)
    /\ prior' = [prior EXCEPT ![p] = hist[n].fate # "never" /\ hist[n].ts = t]
    /\ UNCHANGED <<hist, overlap>>

keyFrame == <<sessVars, sessHist, guardVars, flowVars, flowHist, metricVars, httpsVars, dashVars>>
exchangeFrame == <<sessVars, sessHist, guardVars, fpc, freq, fresp, issued, flowHist, fsent, metricVars, httpsVars, dashVars>>

NextKey ==
    \/ Tick
    \/ \E c \in Clients, n \in Nonces, t \in Timestamps, s \in Signatures :
          KeyRequestH(Main, c, n, t, s) /\ UNCHANGED keyFrame
    \/ StoreNowH(Main) /\ UNCHANGED keyFrame
    \/ LookupH(Main) /\ UNCHANGED keyFrame
    \/ PutStepH(Main) /\ UNCHANGED keyFrame
    \/ ReturnH(Main) /\ UNCHANGED keyFrame

SpecKey == Init /\ [][NextKey]_vars

\* ======================================================== enforce_https
\* A test that takes the forwarded protocol in any letter case.
IsHttpsAnyCase(scheme, proto) == scheme = "https" \/ proto \in {"https", "HTTPS"}

\* _is_https, lines 15-17
IsHttps(scheme, proto) == scheme = "https" \/ proto = "https"

\* enforce_https, lines 22-24: the 400 answer, or on to call_next
EnforceHttps(scheme, proto, require) ==
    /\ hgate.stage = "idle"
    /\ pc[Main] = "idle"
    /\ hgate' = IF require /\ ~IsHttps(scheme, proto)
                THEN [stage |-> "refused", scheme |-> scheme, proto |-> proto, require |-> require,
                      status |-> 400, headers |-> {}]
                ELSE [stage |-> "next", scheme |-> scheme, proto |-> proto, require |-> require,
                      status |-> 0, headers |-> {}]

\* line 26, call_next: the request reaches issue_ai_key
CallNext(c, n, t, s) ==
    /\ hgate.stage = "next"
    /\ KeyRequestH(Main, c, n, t, s)
    /\ hgate' = [NoGate EXCEPT !.stage = "handler"]

\* lines 27-32: the handler has answered; the middleware adds the headers
AddHeaders ==
    /\ hgate.stage = "handler"
    /\ pc[Main] = "done"
    /\ hgate' = [hgate EXCEPT !.stage = "answered", !.status = KeyAnswer(Main).status,
                              !.headers = {"Strict-Transport-Security", "Cache-Control"}]

\* The response of the handler has been sent.
HttpsAnswered ==
    /\ hgate.stage = "answered"
    /\ ReturnH(Main)
    /\ hgate' = NoGate

\* The 400 of the middleware has been sent.
HttpsRefused ==
    /\ hgate.stage = "refused"
    /\ hgate' = NoGate

httpsFrame == <<sessVars, sessHist, guardVars, flowVars, flowHist, metricVars, dashVars>>

NextHttps ==
    \/ Tick
    \/ \E scheme \in Schemes, proto \in ForwardedProtos, require \in BOOLEAN :
          EnforceHttps(scheme, proto, require) /\ UNCHANGED <<clock, authVars, authHist, httpsFrame>>
    \/ \E c \in Clients, n \in Nonces, t \in Timestamps, s \in Signatures :
          CallNext(c, n, t, s) /\ UNCHANGED httpsFrame
    \/ StoreNowH(Main) /\ UNCHANGED keyFrame
    \/ LookupH(Main) /\ UNCHANGED keyFrame
    \/ PutStepH(Main) /\ UNCHANGED keyFrame
    \/ AddHeaders /\ UNCHANGED <<clock, authVars, authHist, httpsFrame>>
    \/ HttpsAnswered /\ UNCHANGED httpsFrame
    \/ HttpsRefused /\ UNCHANGED <<clock, authVars, authHist, httpsFrame>>

SpecHttps == Init /\ [][NextHttps]_vars

\* ============================================ OAuth exchange endpoint
\* POST /v1/oauth/notion/exchange: the signed request is verified with
\* verify_signed_request; on success the authorization code is forwarded
\* to the provider and the answer relayed, on failure the answer is a 401
\* and the provider is not contacted.

\* The provider's answers the endpoint can relay.
ExchangeAnswers == {u \in Upstream : u.kind = "response"}

\* A signed exchange request arrives and is verified.
ExchangeRequest(p, c, n, t, s) ==
    /\ xchg[p].stage = "idle"
    /\ KeyRequestH(p, c, n, t, s)
    /\ xchg' = [xchg EXCEPT ![p].stage = "verify"]

\* An endpoint that forwards the code whatever the verification said.
ExchangeForwardAlways(p, up) ==
    /\ xchg[p].stage = "verify" /\ pc[p] = "done"
    /\ xchg' = [xchg EXCEPT ![p] = [stage |-> "answered", called |-> TRUE,
                                    status |-> up.status, token |-> ParseBody(up.body).token]]
    /\ UNCHANGED <<clock, authVars, authHist>>

\* The verification is over: on Ok the code is forwarded and the answer of
\* the provider relayed, on Err the answer is the 401.
ExchangeForward(p, up) ==
    /\ xchg[p].stage = "verify" /\ pc[p] = "done"
    /\ xchg' = [xchg EXCEPT ![p] =
                  IF result[p] = "accepted"
                  THEN [stage |-> "answered", called |-> TRUE,
                        status |-> up.status, token |-> ParseBody(up.body).token]
                  ELSE [stage |-> "answered", called |-> FALSE, status |-> 401, token |-> Absent]]
    /\ UNCHANGED <<clock, authVars, authHist>>

\* The answer has been sent.
ExchangeReturn(p) ==
    /\ xchg[p].stage = "answered"
    /\ ReturnH(p)
    /\ xchg' = [xchg EXCEPT ![p] = NoExchange]

NextExchange ==
    \/ Tick
    \/ \E c \in Clients, n \in Nonces, t \in Timestamps, s \in Signatures :
          ExchangeRequest(Main, c, n, t, s) /\ UNCHANGED exchangeFrame
    \/ StoreNowH(Main) /\ UNCHANGED keyFrame
    \/ LookupH(Main) /\ UNCHANGED keyFrame
    \/ PutStepH(Main) /\ UNCHANGED keyFrame
    \/ \E up \in ExchangeAnswers : ExchangeForward(Main, up) /\ UNCHANGED exchangeFrame
    \/ ExchangeReturn(Main) /\ UNCHANGED exchangeFrame

SpecExchange == Init /\ [][NextExchange]_vars

\* ========================================================= MetricsStore
\* __init__, lines 88-91: the fields are set, _events is empty; _load is
\* called next.
MetricsStore(f, max_events) ==
    /\ mpc = "down"
    /\ mfile' = f
    /\ mevents' = <<>>
    /\ mline' = 0
    /\ mmax' = max_events
    /\ mall' = <<>>
    /\ madd' = NoIngest
    /\ mpc' = "exists"

\* Path.exists(): stat succeeds, or fails with ENOENT and the answer is
\* False; an OSError outside ENOENT, ENOTDIR, EBADF and ELOOP is raised
\* again by the pathlib of Python 3.11 and answered with False by a pathlib
\* that ignores every OSError.
PathExists(f) ==
    IF f.kind = "missing" THEN {"False"}
    ELSE IF f.kind = "nostat" THEN {"OSError", "False"}
    ELSE {"True"}

\* _load, lines 95-97, outside the try block.
LoadExists ==
    /\ mpc = "exists"
    /\ \E r \in PathExists(mfile) :
          mpc' = IF r = "OSError" THEN "raised" ELSE IF r = "False" THEN "up" ELSE "read"
    /\ UNCHANGED <<mfile, mevents, mline, mmax, mall, madd>>

\* _load, line 100; a failure goes to the handler at lines 107-110.
LoadRead ==
    /\ mpc = "read"
    /\ IF mfile.kind = "noread"
       THEN mevents' = <<>> /\ mpc' = "up" /\ mline' = 0
       ELSE mevents' = mevents /\ mpc' = "lines" /\ mline' = 1
    /\ mall' = mevents'
    /\ UNCHANGED <<mfile, mmax, madd>>

\* _load, lines 101-106, one turn of the loop; a line that does not validate
\* goes to the handler at lines 107-110.
LoadLine ==
    /\ mpc = "lines"
    /\ IF mline > Len(mfile.lines)
       THEN mevents' = mevents /\ mpc' = "up" /\ mline' = 0
       ELSE LET line == mfile.lines[mline]
                parsed == ModelValidateJson(line)
            IN  IF IsBlank(line)
                THEN mevents' = mevents /\ mpc' = "lines" /\ mline' = mline + 1
                ELSE IF parsed.ok
                THEN mevents' = Append(mevents, parsed.event) /\ mpc' = "lines" /\ mline' = mline + 1
                ELSE mevents' = <<>> /\ mpc' = "up" /\ mline' = 0
    /\ mall' = mevents'
    /\ UNCHANGED <<mfile, mmax, madd>>

\* The process ends, with the store constructed or with the exception.
MetricsStop ==
    /\ mpc \in {"up", "raised", "serving"}
    /\ mpc' = "down"
    /\ mfile' = NoFile
    /\ mevents' = <<>>
    /\ mline' = 0
    /\ mmax' = 0
    /\ mall' = <<>>
    /\ madd' = NoIngest

\* self._events[-n:], as Python slices: -0 is 0, so that n = 0 is the slice
\* from the first element on.
LastSlice(events, n) ==
    IF n = 0 THEN events
    ELSE IF n >= Len(events) THEN events
    ELSE SubSeq(events, Len(events) - n + 1, Len(events))

\* _persist, lines 112-119: the file holds the lines of the events, or the
\* exception is raised again.
Persist(f, events, outcome) ==
    IF outcome = "written"
    THEN [kind |-> "text", lines |-> [i \in 1..Len(events) |-> ModelDumpJson(events[i])]]
    ELSE IF outcome = "emptied" THEN [kind |-> "text", lines |-> <<>>]
    ELSE f

\* An add that puts the list back as it was when _persist raises.
AddRollsBack(event, outcome) ==
    /\ mpc \in {"up", "serving"}
    /\ Len(mall) < MaxHistory
    /\ LET appended == Append(mevents, event)
       IN  mevents' = IF outcome # "written" THEN mevents
                      ELSE IF Len(appended) > mmax THEN LastSlice(appended, mmax)
                      ELSE appended
    /\ mfile' = Persist(mfile, mevents', outcome)
    /\ mall' = Append(mall, event)
    /\ mpc' = "serving"
    /\ UNCHANGED <<mline, mmax>>

\* MetricsStore.add, lines 121-132: append, trim, persist.
Add(event, outcome) ==
    /\ mpc \in {"up", "serving"}
    /\ Len(mall) < MaxHistory
    /\ LET appended == Append(mevents, event)
       IN  mevents' = IF Len(appended) > mmax THEN LastSlice(appended, mmax) ELSE appended
    /\ mfile' = Persist(mfile, mevents', outcome)
    /\ mall' = Append(mall, event)
    /\ mpc' = "serving"
    /\ UNCHANGED <<mline, mmax>>

\* ingest_metrics: the key is required, the event is added, and an exception
\* of add is answered with 500.
IngestMetrics(key, event, outcome) ==
    IF key # MetricsIngestToken
    THEN /\ mpc \in {"up", "serving"}
         /\ madd' = [status |-> 401, event |-> event, persist |-> "none"]
         /\ UNCHANGED <<mpc, mfile, mevents, mline, mmax, mall>>
    ELSE /\ Add(event, outcome)
         /\ madd' = [status |-> IF outcome = "written" THEN 202 ELSE 500,
                      event |-> event, persist |-> outcome]

\* list_recent(limit), line 135
ListRecent(limit) == LastSlice(mevents, limit)

metricsFrame == <<clock, authVars, authHist, sessVars, sessHist, guardVars, flowVars, flowHist, httpsVars, dashVars>>

NextMetrics ==
    \/ \E f \in MetricFiles, n \in MaxEventsSettings : MetricsStore(f, n) /\ UNCHANGED metricsFrame
    \/ LoadExists /\ UNCHANGED metricsFrame
    \/ LoadRead /\ UNCHANGED metricsFrame
    \/ LoadLine /\ UNCHANGED metricsFrame
    \/ MetricsStop /\ UNCHANGED metricsFrame
    \/ \E k \in MetricsKeys, e \in MetricEvents, o \in PersistOutcomes :
          IngestMetrics(k, e, o) /\ UNCHANGED metricsFrame

SpecMetrics == Init /\ [][NextMetrics]_vars

\* ==================================================== dashboard session
\* login, lines 143-158, for the configured username and password: the
\* cookie is the token made at this instant.
Login(username) ==
    /\ dtok' = [token |-> MakeSessionToken(username, clock), username |-> username,
                exp |-> NowTs(clock) + DashTtl, made |-> TRUE]
    /\ dres' = NoVerdict

\* require_dashboard_user, lines 82-88: a request with no metrics_session
\* cookie is not authenticated, any other cookie is verified.
RequireDashboardUser(cookie) ==
    /\ dtok.made
    /\ LET v == IF cookie = <<>> THEN Verdict(401, "Not authenticated", <<>>)
                ELSE VerifySessionToken(cookie, clock)
       IN  dres' = [token |-> cookie, at |-> clock, status |-> v.status,
                    detail |-> v.detail, username |-> v.username]
    /\ UNCHANGED dtok

dashFrame == <<authVars, authHist, sessVars, sessHist, guardVars, flowVars, flowHist, metricVars, httpsVars>>

NextDash ==
    \/ Tick
    \/ \E u \in Usernames : Login(u) /\ UNCHANGED <<clock, dashFrame>>
    \/ \E c \in Cookies(dtok) : RequireDashboardUser(c) /\ UNCHANGED <<clock, dashFrame>>

SpecDash == Init /\ [][NextDash]_vars

\* ===================================================== the two stores
\* One thread that signs in with valid requests and stores sessions, one
\* call at a time, while both clocks advance.
storesAuthFrame == <<authHist, sessVars, sessHist, guardVars, flowVars, flowHist, metricVars, httpsVars, dashVars>>
storesSessFrame == <<authVars, authHist, sessHist, guardVars, flowVars, flowHist, metricVars, httpsVars, dashVars>>

NextStores ==
    \/ Tick
    \/ MonoTick /\ UNCHANGED storesSessFrame
    \/ \E n \in Nonces, t \in Timestamps :
          /\ spc[Main] = "idle"
          /\ Verify(Main, ClientId, n, t, Hmac(ClientSecret, Payload(ClientId, n, t)))
          /\ UNCHANGED storesAuthFrame
    \/ StoreNow(Main) /\ UNCHANGED storesAuthFrame
    \/ Lookup(Main) /\ UNCHANGED storesAuthFrame
    \/ PutStep(Main) /\ UNCHANGED storesAuthFrame
    \/ Return(Main) /\ UNCHANGED storesAuthFrame
    \/ \E i \in SessionIds, d \in SessionPayloads, t \in 1..LongTtl :
          /\ pc[Main] = "idle"
          /\ SetBegin(Main, i, d, t)
          /\ UNCHANGED storesSessFrame
    \/ SetStore(Main) /\ UNCHANGED storesSessFrame

SpecStores == Init /\ [][NextStores]_vars

\* ========================================================== properties
\* The calls whose three stateless checks have just run: `now` is still known.
Checked(p) == pc[p] = "now" \/ (pc[p] = "done" /\ result[p] \in {InvalidClient, Expired, InvalidSignature})

\* abs(now - timestamp) in ticks, from the values the call read.
Delta(p) == Abs(readNow[p] - req[p].ts * Res)

\* The digest the server expects for the call's arguments.
Expected(p) == Hmac(ClientSecret, Payload(req[p].client, req[p].nonce, req[p].ts))

C6_RejectedLeavesStore ==
    [][\A p \in Procs :
          /\ (pc[p] = "idle" /\ result'[p] \in {InvalidClient, Expired, InvalidSignature})
                => (seen' = seen /\ pc'[p] = "done")
          /\ (pc[p] = "done" /\ result[p] \in {InvalidClient, Expired, InvalidSignature})
                => seen' = seen
          /\ (seen' # seen /\ pc'[p] # pc[p])
                => (pc[p] \in {"lock", "put"} /\ req[p].client = ClientId /\ req[p].sig = Expected(p))]_vars

\* A request was rejected for its signature while the store holds an entry,
\* and its own nonce is not in the store.
C6_Witness ==
    \E p \in Procs :
        /\ pc[p] = "done" /\ result[p] = InvalidSignature
        /\ seen # <<>>
        /\ ~Has(seen, req[p].nonce)

\* C7: between calls (nobody inside the critical section) the nonce store
\* holds at most max_entries entries.
C7_SizeBounded == lock = "free" => Len(seen) <= MaxEntries

\* C1 as stated: once (nonce, timestamp) has been accepted, a later call with
\* the same pair that passes the three checks while the timestamp is still
\* inside the window is rejected with 'Nonce already used'.
C1_ReplayAlwaysRejected ==
    \A p \in Procs :
        (pc[p] = "done" /\ result[p] \in {NonceUsed, "accepted"} /\ prior[p] /\ req[p].ts >= cutoff[p])
            => result[p] = NonceUsed

\* C1 amended: a later call with an accepted (nonce, timestamp) that passes
\* the three checks gets past the lookup (and is then accepted instead of
\* being rejected with 'Nonce already used') only if the entry of its nonce
\* was evicted first, by capacity eviction or by a TTL sweep whose cutoff
\* is past the timestamp.
C1_ReplayRejectedUnlessEvicted ==
    \A p \in Procs :
        (pc[p] = "put" /\ prior[p]) => hist[req[p].nonce].fate \in {"cap", "ttl"}

\* A replay is rejected although the other nonce was accepted in between.
C1_Witness ==
    \E p \in Procs :
        /\ pc[p] = "done" /\ prior[p] /\ req[p].ts >= cutoff[p]
        /\ result[p] = NonceUsed
        /\ hist[req[p].nonce] = [ts |-> req[p].ts, fate |-> "stored"]
        /\ \E n \in Nonces : n # req[p].nonce /\ hist[n].fate # "never"

\* Two calls with the same nonce whose validate_and_store executions overlap.
Concurrent(p, q) ==
    /\ p # q
    /\ req[p].nonce = req[q].nonce
    /\ (p \in overlap[q] \/ q \in overlap[p])

\* C2 as stated: of the calls that run validate_and_store concurrently with
\* the same nonce, each with its timestamp inside the window of its own
\* cutoff, no two are accepted.
C2_OneAcceptedOnly ==
    \A p, q \in Procs :
        (Concurrent(p, q) /\ pc[p] = "done" /\ pc[q] = "done"
            /\ req[p].ts >= cutoff[p] /\ req[q].ts >= cutoff[q])
            => ~(result[p] = "accepted" /\ result[q] = "accepted")

\* C2 amended: evict + lookup + insert is one critical section: a caller
\* that found the nonce absent holds the lock until its insert, nobody else
\* is between lookup and insert, and the nonce is still absent when it
\* inserts; a second concurrent caller with the same nonce gets past the
\* lookup only if the entry the first one inserted was evicted again.
C2_CriticalSection ==
    \A p \in Procs :
        pc[p] = "put" =>
            /\ lock = p
            /\ ~Has(seen, req[p].nonce)
            /\ \A q \in Procs \ {p} : pc[q] # "put"
            /\ \A q \in Procs \ {p} :
                 (Concurrent(p, q) /\ pc[q] = "done" /\ result[q] = "accepted")
                    => hist[req[p].nonce].fate \in {"cap", "ttl"}

\* Two overlapping calls with the same nonce: one accepted, one rejected.
C2_Witness ==
    \E p, q \in Procs :
        /\ Concurrent(p, q) /\ pc[p] = "done" /\ pc[q] = "done"
        /\ result[p] = "accepted" /\ result[q] = NonceUsed

\* ------------------------------------------------------------- sessions
\* C8: EphemeralSessionCache is size-bounded: in every state between calls
\* the number of stored sessions is at most max_entries.
C8_SessionsBounded == Len(store) <= MaxSessions

\* C9: exactly-once consumption: since the latest set of an id at most one
\* pop has returned a payload, and a pop that returns a payload returns the
\* payload of that latest set, which no pop had taken before; every other
\* pop returns None, in every interleaving of concurrent pops.
C9_ExactlyOnce ==
    /\ \A i \in SessionIds : takes[i] <= 1
    /\ \A p \in Procs :
          spc[p] = "done" /\ sres[p] # "None"
             => found[p].fate = "stored" /\ sres[p] = found[p].payload

\* Two pops of one id have returned: one got the payload, the other met the
\* entry already taken and got None.
C9_Witness ==
    \E p \in Procs : \E q \in Procs \ {p} :
        /\ spc[p] = "done" /\ spc[q] = "done"
        /\ call[p].id = call[q].id
        /\ sres[p] \in SessionPayloads
        /\ sres[q] = "None" /\ found[q].fate = "popped"

\* C10 as stated: the first pop of an id after its latest set, with a clock
\* reading before the expiry, returns the payload, whatever happened to
\* other ids in between.
C10_LivePopReturnsPayload ==
    \A p \in Procs :
        spc[p] = "done" /\ found[p].fate \in {"stored", "swept", "capped"} /\ found[p].exp = 1
           => sres[p] \in SessionPayloads

\* C10 amended: the first pop of an id after its latest set, with a clock
\* reading before the expiry, returns exactly the payload of that set,
\* provided no eviction (for capacity, or the expiry sweep of an operation
\* with a later clock reading) removed the entry before the lookup.
C10_LivePopUnlessEvicted ==
    \A p \in Procs :
        spc[p] = "done" /\ found[p].fate = "stored" /\ found[p].exp = 1
           => sres[p] = found[p].payload /\ sres[p] \in SessionPayloads

\* A live entry is taken with its payload after the other id was set.
C10_Witness ==
    \E p \in Procs :
        /\ spc[p] = "done" /\ found[p].fate = "stored" /\ found[p].exp = 1
        /\ sres[p] = found[p].payload
        /\ \E i \in SessionIds \ {call[p].id} : shist[i].fate # "never"

\* C11: a pop whose clock reading is at or after the expiry of the entry of
\* its id (the latest set, not yet popped) returns None, whether or not a
\* pop was made before, and leaves no entry for the id behind; an entry
\* set with ttl 0 is such an entry for every pop that starts after the set.
C11_ExpiredPopReturnsNone ==
    \A p \in Procs :
        (spc[p] = "done" /\ found[p].fate \in {"stored", "swept", "capped"} /\ found[p].exp = 0)
           => /\ sres[p] = "None"
              /\ shist[call[p].id].fate = "popped" => ~HasS(store, call[p].id)

\* A pop met an entry that had expired with no pop having returned its
\* payload, returned None, and no entry of the id is left.
C11_Witness ==
    \E p \in Procs :
        /\ spc[p] = "done" /\ found[p].fate = "swept" /\ found[p].exp = 0
        /\ sres[p] = "None" /\ takes[call[p].id] = 0
        /\ ~HasS(store, call[p].id)

\* The entries the store holds for an id.
EntriesOf(id) == {i \in 1..Len(store) : store[i].id = id}

C13_RepeatAlwaysReplayed ==
    \A p \in Procs :
        (gpc[p] = "done" /\ gprior[p]) => gres[p] = StateReplayed

\* C13 amended: the first use of a state succeeds (a call is rejected only
\* while an entry of an earlier successful call is stored); a repeat made
\* less than ttl_seconds after the first use gets past the membership test
\* only if the entry was swept before its lookup by a call with a later
\* clock reading; and the stored first-seen instant is the one of the
\* successful call, never refreshed by a rejected repeat.
C13_RepeatReplayedUnlessSwept ==
    /\ \A p \in Procs :
          (gpc[p] = "mark" /\ gprior[p]) => ghist[gcall[p].state].fate = "swept"
    /\ \A p \in Procs :
          (gpc[p] = "done" /\ gres[p] = StateReplayed) => ghist[gcall[p].state].fate # "never"
    /\ \A st \in States :
          ghist[st].fate = "stored" => HasG(gseen, st) /\ GetG(gseen, st) = ghist[st].at

\* A repeat is rejected at a later clock reading, after the other state
\* was validated, and the stored instant is still that of the first use.
C13_Witness ==
    \E p \in Procs :
        /\ gpc[p] = "done" /\ gprior[p] /\ gres[p] = StateReplayed
        /\ gcall[p].now > ghist[gcall[p].state].at
        /\ GetG(gseen, gcall[p].state) = ghist[gcall[p].state].at
        /\ \E st \in States \ {gcall[p].state} : ghist[st].fate # "never"

\* Two calls with the same state whose validate_and_mark executions overlap.
GuardConcurrent(p, q) ==
    /\ p # q
    /\ gcall[p].state = gcall[q].state
    /\ (p \in goverlap[q] \/ q \in goverlap[p])

\* C14 as stated: of the calls that run validate_and_mark concurrently with
\* the same state, no two succeed.
C14_OneSucceedsOnly ==
    \A p, q \in Procs :
        (GuardConcurrent(p, q) /\ gpc[p] = "done" /\ gpc[q] = "done")
            => ~(gres[p] = "ok" /\ gres[q] = "ok")

\* C14 amended: sweep + membership test + insert is one critical section: a
\* caller that found the state absent holds the lock until its insert,
\* nobody else is between test and insert, and the state is still absent
\* when it inserts; a second concurrent caller with the same state gets
\* past the test only if the entry the first one inserted was swept again.
C14_GuardCriticalSection ==
    \A p \in Procs :
        gpc[p] = "mark" =>
            /\ glock = p
            /\ ~HasG(gseen, gcall[p].state)
            /\ \A q \in Procs \ {p} : gpc[q] # "mark"
            /\ \A q \in Procs \ {p} :
                 (GuardConcurrent(p, q) /\ gpc[q] = "done" /\ gres[q] = "ok")
                    => ghist[gcall[p].state].fate = "swept"

\* Two overlapping calls with the same state: one succeeded, one raised.
C14_Witness ==
    \E p, q \in Procs :
        /\ GuardConcurrent(p, q) /\ gpc[p] = "done" /\ gpc[q] = "done"
        /\ gres[p] = "ok" /\ gres[q] = StateReplayed

\* ---------------------------------------------------------------- C15
\* The state grammar in the words of the claim: letters, digits and
\* . _ ~ - only, 8 to 512 characters, after trimming.
Letters ==
    {"A", "B", "C", "D", "E", "F", "G", "H", "I", "J", "K", "L", "M",
     "N", "O", "P", "Q", "R", "S", "T", "U", "V", "W", "X", "Y", "Z",
     "a", "b", "c", "d", "e", "f", "g", "h", "i", "j", "k", "l", "m",
     "n", "o", "p", "q", "r", "s", "t", "u", "v", "w", "x", "y", "z"}
Digits == {"0", "1", "2", "3", "4", "5", "6", "7", "8", "9"}
Malformed(state) ==
    \/ ~state.some
    \/ Strip(state.text) = <<>>
    \/ Len(Strip(state.text)) < 8 \/ Len(Strip(state.text)) > 512
    \/ \E i \in 1..Len(Strip(state.text)) :
          Strip(state.text)[i] \notin Letters \cup Digits \cup {".", "_", "~", "-"}

\* C15: a callback whose state is missing, empty after trimming or outside
\* the grammar is answered at once with the error redirect "Invalid OAuth
\* state": the guard and the session cache are left as they were and the
\* request never gets to the exchange with the provider.
C15_MalformedStateRejected ==
    [][\A t \in Procs :
         (fpc[t] = "idle" /\ freq'[t].kind = "callback" /\ Malformed(freq'[t].state)) =>
             /\ gseen' = gseen /\ store' = store /\ issued' = issued
             /\ fpc'[t] = "done"
             /\ fresp'[t] = RedirectError("Invalid OAuth state")]_vars

\* A callback with a malformed state has been answered while the guard and
\* the cache both held something it could have disturbed.
C15_Witness ==
    \E t \in Procs :
        /\ fpc[t] = "done" /\ freq[t].kind = "callback" /\ Malformed(freq[t].state)
        /\ fresp[t] = RedirectError("Invalid OAuth state")
        /\ gseen # <<>> /\ store # <<>>

\* ---------------------------------------------------------------- C16
\* C16: finalize answers a non-empty session id that was never issued, one
\* that has been consumed and one that has expired with the same response:
\* status 400, error 'session_expired', message 'Session not found or
\* expired'.
C16_SameAnswerForMissing ==
    \A t \in Procs :
        (fpc[t] = "done" /\ freq[t].kind = "finalize" /\ fwhy[t] \in {"never", "consumed", "expired"}) =>
            /\ fresp[t] = SessionExpired
            /\ fresp[t].status = 400
            /\ fresp[t].kind = "session_expired"
            /\ fresp[t].msg = "Session not found or expired"

\* Two finalize requests have been answered, one for an id that was never
\* issued and one for an id that had been consumed or had expired.
C16_Witness ==
    \E t \in Procs, u \in Procs :
        /\ fpc[t] = "done" /\ freq[t].kind = "finalize" /\ fwhy[t] = "never"
        /\ fpc[u] = "done" /\ freq[u].kind = "finalize" /\ fwhy[u] \in {"consumed", "expired"}
        /\ fresp[t] = fresp[u]

\* ---------------------------------------------------------------- C17
\* The lifecycle of a handoff, read off the history of its session id:
\* "never" is AwaitingCallback (no session stored yet), "stored" is
\* SessionStored, "consumed" is Consumed, "expired" is Expired; "dropped"
\* is a stored session removed by the capacity limit of the cache.
ClaimedMoves == {<<"never", "stored">>, <<"stored", "consumed">>, <<"stored", "expired">>}

\* AwaitingCallback -> Rejected: a callback that ends without the finish
\* redirect leaves every handoff where it was.
RejectedStoresNothing ==
    \A t \in Procs :
        (fpc[t] \in {"idle", "await"} /\ fpc'[t] = "done" /\ freq'[t].kind = "callback"
            /\ fresp'[t].kind # "finish") => fhist' = fhist /\ store' = store

\* C17 as stated: a handoff only moves AwaitingCallback -> SessionStored ->
\* Consumed or SessionStored -> Expired, Expired being entered only when
\* the TTL has elapsed; and finalize returns the payload only for a session
\* that is stored, unconsumed and unexpired.
C17_LifecycleAsClaimed ==
    /\ [][\A i \in FlowIds : fhist'[i] # fhist[i] => <<fhist[i], fhist'[i]>> \in ClaimedMoves]_vars
    /\ [][RejectedStoresNothing]_vars
    /\ [](\A t \in Procs :
            (fpc[t] = "done" /\ freq[t].kind = "finalize" /\ fresp[t].kind = "payload") => fwhy[t] = "live")

\* C17, amended: as above, with one more way out of SessionStored: the
\* capacity limit of the cache removes a stored session before its TTL has
\* elapsed; that state is terminal too, and no finalize returns the
\* payload of a consumed, expired or dropped session.
C17_LifecycleWithCapacity ==
    /\ [][\A i \in FlowIds :
            fhist'[i] # fhist[i] => <<fhist[i], fhist'[i]>> \in ClaimedMoves \cup {<<"stored", "dropped">>}]_vars
    /\ [][RejectedStoresNothing]_vars
    /\ [](\A t \in Procs :
            (fpc[t] = "done" /\ freq[t].kind = "finalize" /\ fresp[t].kind = "payload") => fwhy[t] = "live")
    /\ [](\A t \in Procs :
            (fpc[t] = "done" /\ freq[t].kind = "finalize" /\ fwhy[t] \in {"consumed", "expired", "dropped"})
                => fresp[t].payload = "None")

\* One session has been consumed and another has reached a terminal state
\* without being consumed, and a finalize of a terminal session has been
\* refused.
C17_Witness ==
    /\ \E i \in FlowIds : fhist[i] = "consumed"
    /\ \E i \in FlowIds : fhist[i] \in {"expired", "dropped"}
    /\ \E t \in Procs : fpc[t] = "done" /\ fwhy[t] \in {"consumed", "expired"} /\ fresp[t] = SessionExpired

\* ---------------------------------------------------------------- C18
\* The answer of the provider is a full success: status below 400 and a
\* body that is an object with a non-blank string access_token.
ExchangeSucceeded(up) ==
    /\ up.kind = "response" /\ up.status < 400
    /\ up.body.type = "dict"
    /\ up.body.token \notin {Absent, "<int>", "  "}

\* C18: the callback stores a session only on full success (state
\* well-formed and unused, code present, client id and secret configured,
\* exchange answered below 400 with an object holding a non-blank string
\* access_token); on every other path it ends in an error redirect and the
\* session cache is unchanged.
C18_StoresOnlyOnSuccess ==
    /\ [][\A t \in Procs, state \in RawStates, code \in Codes, cfg \in NotionConfigured :
            (CallbackStart(t, state, code, cfg) /\ fpc'[t] = "await") =>
                /\ ~Malformed(state) /\ ~Seen(gseen, Normalized(state))
                /\ code.some /\ code.text # <<>> /\ cfg]_vars
    /\ [][\A t \in Procs : (fpc[t] = "idle" /\ fpc'[t] \in {"await", "done"}
                                /\ freq'[t].kind = "callback") => store' = store]_vars
    /\ [][\A t \in Procs, up \in Upstream, sid \in FlowIds :
            CallbackResume(t, up, sid) =>
                IF ExchangeSucceeded(up)
                THEN fresp'[t].kind = "finish"
                ELSE store' = store /\ fresp'[t].kind = "error" /\ fresp'[t].status = 302]_vars

\* ---------------------------------------------------------------- C19
\* The callback of task t has ended on a network failure or timeout of the
\* exchange.
ExchangeFailed(t) ==
    fpc[t] = "done" /\ freq[t].kind = "callback" /\ fresp[t] = RedirectError("Failed to reach Notion API")

\* C19 as stated: when the exchange fails on the network, the request has
\* changed none of the state guard, the session cache and the nonce store.
C19_FailureTouchesNothing ==
    \A t \in Procs : ExchangeFailed(t) => ftouch[t] = {}

\* C19, amended: when the exchange fails on the network, the request has
\* changed neither the session cache nor the nonce store; the state guard
\* keeps the mark the request made on its state before the exchange (and
\* has lost what that call swept), and the failure itself changes nothing.
C19_FailureKeepsOnlyTheMark ==
    /\ [](\A t \in Procs : ExchangeFailed(t) => ftouch[t] = {"guard"})
    /\ [][\A t \in Procs :
            (fpc[t] = "idle" /\ fpc'[t] = "await") =>
                /\ store' = store /\ seen' = seen /\ issued' = issued
                /\ Seen(gseen', Normalized(freq'[t].state))
                /\ ~Seen(GuardSweep(gseen, Monotonic - GuardTtl), Normalized(freq'[t].state))]_vars
    /\ [][\A t \in Procs :
            (fpc[t] = "await" /\ ExchangeFailed(t)') =>
                gseen' = gseen /\ store' = store /\ seen' = seen /\ issued' = issued]_vars

\* An exchange has failed on the network while the cache held a session
\* and the guard held the state of the failed request.
C19_Witness ==
    \E t \in Procs :
        /\ ExchangeFailed(t)
        /\ store # <<>>
        /\ Seen(gseen, Normalized(freq[t].state))
        /\ ftouch[t] = {"guard"}

\* ---------------------------------------------------------------- C20
\* The request of p has passed the client, freshness and signature checks.
PassedStateless(p) ==
    /\ req[p].client = ClientId
    /\ Delta(p) <= RequestTtl * Res
    /\ CompareDigest(Expected(p), req[p].sig)

\* The key is in the answer only after all the checks passed (a call gets
\* to the nonce store only with the three stateless checks passed, and is
\* accepted only from there), and every failure is a 401 without a key.
KeyOnlyWhenVerified ==
    \A p \in Procs :
        /\ pc[p] = "now" => PassedStateless(p)
        /\ (pc[p] = "done" /\ KeyAnswer(p).api_key # NoKey) =>
              /\ result[p] = "accepted"
              /\ req[p].client = ClientId
              /\ CompareDigest(Expected(p), req[p].sig)
        /\ (pc[p] = "done" /\ result[p] # "accepted") =>
              KeyAnswer(p).status = 401 /\ KeyAnswer(p).api_key = NoKey
        /\ (pc[p] = "done" /\ result[p] = "accepted") =>
              KeyAnswer(p).status = 200 /\ KeyAnswer(p).api_key = ApiKey

C21_NoExchangeWithoutVerification ==
    /\ [](\A p \in Procs :
            /\ xchg[p].called => (pc[p] = "done" /\ result[p] = "accepted")
            /\ (xchg[p].stage = "answered" /\ result[p] # "accepted") =>
                  (xchg[p].status = 401 /\ ~xchg[p].called /\ xchg[p].token = Absent))
    /\ [][\A p \in Procs :
            (xchg[p].stage = "verify" /\ result[p] \in {InvalidClient, Expired, InvalidSignature, NonceUsed})
                => ~xchg'[p].called]_vars

\* A replayed request has been answered with the 401 without the provider
\* being contacted.
C21_Witness ==
    \E p \in Procs :
        /\ xchg[p].stage = "answered" /\ result[p] = NonceUsed /\ prior[p]
        /\ xchg[p].status = 401 /\ ~xchg[p].called

\* ---------------------------------------------------------------- C22
\* The client secret is in the request to the token endpoint as the
\* password of the HTTP Basic credentials, and nowhere else in it.
SecretOnlyAsBasicAuth(m) ==
    /\ m.url = "notion_token_url"
    /\ m.auth = <<NotionClientId, NotionClientSecret>>
    /\ DOMAIN m.json = {"grant_type", "code", "redirect_uri"}
    /\ m.json.grant_type # NotionClientSecret /\ m.json.redirect_uri # NotionClientSecret
    /\ NotionClientSecret \notin m.headers

\* C22: the Notion client secret goes only to the token endpoint, as HTTP
\* Basic credentials, and is in no redirect and no response body of the
\* callback and finalize endpoints, on success or on any error path.
C22_SecretStaysOnServer ==
    \A t \in Procs :
        /\ fsent[t] # NoMessage => SecretOnlyAsBasicAuth(fsent[t])
        /\ fresp[t].msg # NotionClientSecret
        /\ fresp[t].payload # NotionClientSecret
        /\ \A i \in 1..Len(fresp[t].sid) : fresp[t].sid[i] # NotionClientSecret
        /\ \A e \in 1..Len(store) : store[e].payload # NotionClientSecret

\* The secret has been sent to the token endpoint, and the callback has
\* ended in the finish redirect on one task and in an error redirect after
\* the exchange on the other.
C22_Witness ==
    \E t \in Procs, u \in Procs :
        /\ fpc[t] = "done" /\ fsent[t].auth[2] = NotionClientSecret /\ fresp[t].kind = "finish"
        /\ fpc[u] = "done" /\ fsent[u].auth[2] = NotionClientSecret /\ fresp[u].kind = "error"

\* ---------------------------------------------------------------- C23
\* C23: a call of validate_and_store that finds its nonce stored with a
\* timestamp at or after its cutoff rejects the request, whatever timestamp
\* the request carries, and leaves the nonce stored with the timestamp it
\* had.
C23_StoredNonceRejectedAndKept ==
    [][\A p \in Procs :
         (/\ pc[p] = "lock" /\ pc'[p] # "lock"
          /\ Has(seen, req[p].nonce)
          /\ Get(seen, req[p].nonce) >= cutoff[p]) =>
              /\ pc'[p] = "done" /\ result'[p] = NonceUsed
              /\ Has(seen', req[p].nonce)
              /\ Get(seen', req[p].nonce) = Get(seen, req[p].nonce)]_vars

\* ---------------------------------------------------------------- C24
\* C24: every validate_and_store call, accepting or rejecting, begins by
\* removing every entry whose timestamp is below its cutoff, the clock in
\* whole seconds less ttl_seconds; the store changes in such calls only,
\* however much time passes between them.
C24_SweepInlineOnly ==
    /\ [][\A p \in Procs :
            (pc[p] = "now" /\ pc'[p] = "lock") => cutoff'[p] = NowTs(clock) - RequestTtl]_vars
    /\ [][\A p \in Procs :
            (pc[p] = "lock" /\ pc'[p] # "lock") =>
                /\ \A i \in 1..Len(seen') : seen'[i].ts >= cutoff[p]
                /\ \A i \in 1..Len(seen') : \E j \in 1..Len(seen) : seen[j] = seen'[i]]_vars
    /\ [][seen' # seen => \E p \in Procs : pc[p] \in {"lock", "put"} /\ pc'[p] # pc[p]]_vars
    /\ [][clock' # clock => seen' = seen]_vars

\* A rejecting call has swept the expired entry of another nonce.
C24_Witness ==
    \E p \in Procs, n \in Nonces :
        /\ pc[p] = "done" /\ result[p] = NonceUsed
        /\ n # req[p].nonce
        /\ hist[n].fate = "ttl" /\ hist[n].ts < cutoff[p]
        /\ ~Has(seen, n)

\* ---------------------------------------------------------------- C25
\* The entries of a sequence, as a set.
EntriesIn(s) == {s[i] : i \in 1..Len(s)}

\* C25: when more than max_entries entries are left after the TTL sweep of a
\* call, the call removes exactly (size - max_entries) of them, and no removed
\* entry has a timestamp greater than that of an entry that stays.
C25_OldestDroppedFirst ==
    [][\A p \in Procs :
         LET left == {e \in EntriesIn(seen) : e.ts >= cutoff[p]}
             kept == EntriesIn(seen')
         IN  (/\ pc[p] = "lock" /\ pc'[p] # "lock"
              /\ Cardinality(left) > MaxEntries) =>
                  /\ kept \subseteq left
                  /\ Cardinality(left \ kept) = Cardinality(left) - MaxEntries
                  /\ \A r \in left \ kept, k \in kept : r.ts <= k.ts]_vars

\* A call has dropped an entry inside the window for capacity and kept a
\* newer one.
C25_Witness ==
    \E p \in Procs, n \in Nonces :
        /\ pc[p] = "put"
        /\ hist[n].fate = "cap" /\ hist[n].ts >= cutoff[p] /\ ~Has(seen, n)
        /\ Len(seen) = MaxEntries
        /\ \E i \in 1..Len(seen) : seen[i].ts > hist[n].ts

\* ---------------------------------------------------------------- C26
\* The clock value a locked cache operation evicts with: set reads the clock
\* under the lock, pop has read it before.
EvictNow(p) == IF call[p].op = "set" THEN Monotonic ELSE call[p].now

\* C26: when more than max_entries sessions are left after the expiry sweep
\* of a cache operation, exactly (size - max_entries) of them are removed,
\* and no removed session expires later than one that stays.
C26_SoonestExpiryDroppedFirst ==
    [][\A p \in Procs :
         LET left == {e \in EntriesIn(store) : e.exp > EvictNow(p)}
             kept == EntriesIn(EvictExpired(store, EvictNow(p), MaxSessions))
             mine == {e \in left \cup EntriesIn(store') : e.id = call[p].id}
         IN  (/\ spc[p] = "locked" /\ spc'[p] # "locked"
              /\ Cardinality(left) > MaxSessions) =>
                  /\ kept \subseteq left
                  /\ kept \ mine = EntriesIn(store') \ mine
                  /\ Cardinality(left \ kept) = Cardinality(left) - MaxSessions
                  /\ \A r \in left \ kept, k \in kept : r.exp <= k.exp]_vars

\* A live session was dropped for capacity while one expiring later stayed.
C26_Witness ==
    \E i \in SessionIds :
        /\ shist[i].fate = "capped" /\ ~HasS(store, i)
        /\ \E j \in 1..Len(store) : store[j].exp > shist[i].exp

\* ---------------------------------------------------------------- C27
\* C27: validate_and_mark(S) that finds a mark of S older than ttl_seconds
\* (seen_at < now - ttl) succeeds and records S again with its own clock
\* reading; one that finds a mark with seen_at >= now - ttl, the boundary
\* included, raises state_replayed and leaves the mark as it is.
C27_ReplayWindowBoundary ==
    /\ [][\A p \in Procs :
            LET st == gcall[p].state
            IN  (gpc[p] = "lock" /\ gpc'[p] # "lock" /\ HasG(gseen, st)) =>
                    IF GetG(gseen, st) < gcall[p].now - GuardTtl
                    THEN gpc'[p] = "mark" /\ ~HasG(gseen', st)
                    ELSE /\ gpc'[p] = "done" /\ gres'[p] = StateReplayed
                         /\ HasG(gseen', st) /\ GetG(gseen', st) = GetG(gseen, st)]_vars
    /\ [][\A p \in Procs :
            (gpc[p] = "mark" /\ gpc'[p] # "mark") =>
                /\ gpc'[p] = "done" /\ gres'[p] = "ok"
                /\ HasG(gseen', gcall[p].state)
                /\ GetG(gseen', gcall[p].state) = gcall[p].now]_vars

\* One call was refused on a mark exactly ttl_seconds old while another call
\* is about to record again a state whose older mark was swept.
C27_Witness ==
    \E p, q \in Procs :
        /\ gpc[p] = "done" /\ gres[p] = StateReplayed
        /\ HasG(gseen, gcall[p].state)
        /\ GetG(gseen, gcall[p].state) = gcall[p].now - GuardTtl
        /\ gpc[q] = "mark"
        /\ ghist[gcall[q].state].fate = "swept"
        /\ ghist[gcall[q].state].at < gcall[q].now - GuardTtl

\* ---------------------------------------------------------------- C28
\* The file at the metrics path cannot be read, or one of its lines that is
\* not blank fails to parse.
Corrupted(f) ==
    \/ f.kind \in {"nostat", "noread"}
    \/ \E i \in 1..Len(f.lines) :
          f.lines[i] \notin {"", "  "} /\ f.lines[i] \notin {EventLineA, EventLineB}

\* C28: MetricsStore construction never raises, and when the file cannot be
\* read or a line fails to parse the store starts with no events.
C28_CorruptFileStartsEmpty ==
    /\ mpc # "raised"
    /\ (mpc = "up" /\ Corrupted(mfile)) => mevents = <<>>

\* ---------------------------------------------------------------- C29
\* C29: the TTL sweep removes only entries whose timestamp the freshness
\* check rejects at that moment and ever after: an entry that leaves the
\* store while its timestamp would still pass the freshness check has left
\* a full store, by capacity eviction.
C29_SweptMeansStale ==
    /\ [][\A p \in Procs :
            (pc[p] = "lock" /\ pc'[p] # "lock") =>
                \A e \in EntriesIn(seen) \ EntriesIn(seen') :
                    Stale(clock, e.ts) \/ Len(seen') = MaxEntries]_vars
    /\ [](\A n \in Nonces : hist[n].fate = "ttl" => Stale(clock, hist[n].ts))

\* One nonce has been swept while another, whose timestamp is still fresh,
\* is in the store.
C29_Witness ==
    \E n, m \in Nonces :
        /\ hist[n].fate = "ttl" /\ ~Has(seen, n)
        /\ Has(seen, m) /\ ~Stale(clock, Get(seen, m))

\* ---------------------------------------------------------------- C30
\* C30: the entry a call inserts is in the store when the call returns:
\* after an accepting validate_and_store(N, T) the nonce store holds N with
\* T, and after set(id) the session cache holds id with the payload and
\* expiry of the call, whatever eviction the call has done.
C30_InsertedEntryStays ==
    /\ [][\A p \in Procs :
            (pc[p] = "put" /\ pc'[p] = "done") =>
                /\ result'[p] = "accepted"
                /\ Has(seen', req[p].nonce)
                /\ Get(seen', req[p].nonce) = req[p].ts]_vars
    /\ [][\A p \in Procs :
            (spc[p] = "locked" /\ call[p].op = "set" /\ spc'[p] # "locked") =>
                /\ HasS(store', call[p].id)
                /\ GetS(store', call[p].id).exp = call[p].exp
                /\ GetS(store', call[p].id).payload = call[p].payload]_vars

\* Both stores are over max_entries, the nonce just accepted has the
\* smallest timestamp and the session stored last expires first.
C30_Witness ==
    /\ pc[Main] = "done" /\ result[Main] = "accepted"
    /\ Len(seen) > MaxEntries
    /\ \A i \in 1..Len(seen) :
          seen[i].nonce # req[Main].nonce => seen[i].ts > req[Main].ts
    /\ Len(store) > MaxSessions
    /\ \A j \in 1..(Len(store) - 1) : store[j].exp > store[Len(store)].exp

\* ---------------------------------------------------------------- C31
\* A callback of task t begins in this step.
CallbackBegins(t) == fpc[t] = "idle" /\ fpc'[t] # "idle" /\ freq'[t].kind = "callback"

\* C31: a callback with a well-formed state leaves the state marked whatever
\* it answers; a mark stays while it is no older than the guard's
\* ttl_seconds; and a callback that finds its state marked inside that
\* window ends in the 'Invalid OAuth state' redirect and sends nothing to
\* the provider.
C31_StateConsumedFirst ==
    /\ [][\A t \in Procs :
            (CallbackBegins(t) /\ StateWellFormed(freq'[t].state)) =>
                /\ HasG(gseen', Normalized(freq'[t].state))
                /\ GetG(gseen', Normalized(freq'[t].state)) >= mono - GuardTtl]_vars
    /\ [][\A i \in 1..Len(gseen) :
            gseen[i].at >= mono' - GuardTtl => \E j \in 1..Len(gseen') : gseen'[j] = gseen[i]]_vars
    /\ [][\A t \in Procs :
            (/\ CallbackBegins(t) /\ StateWellFormed(freq'[t].state)
             /\ HasG(gseen, Normalized(freq'[t].state))
             /\ GetG(gseen, Normalized(freq'[t].state)) >= mono - GuardTtl) =>
                /\ fpc'[t] = "done"
                /\ fresp'[t] = RedirectError("Invalid OAuth state")
                /\ fsent'[t] = NoMessage]_vars

\* One callback was turned away for the missing code or the incomplete
\* configuration, and a callback with the same state was answered 'Invalid
\* OAuth state'.
C31_Witness ==
    \E t, u \in Procs :
        /\ t # u
        /\ fpc[t] = "done" /\ freq[t].kind = "callback"
        /\ fresp[t].msg \in {"Missing authorization code", "Server OAuth configuration is incomplete"}
        /\ fpc[u] = "done" /\ freq[u].kind = "callback"
        /\ StateWellFormed(freq[u].state)
        /\ Normalized(freq[u].state) = Normalized(freq[t].state)
        /\ fresp[u] = RedirectError("Invalid OAuth state")
        /\ fsent[u] = NoMessage

\* ---------------------------------------------------------------- C32
\* C32: of the callbacks carrying one state, at most one per window of the
\* guard's ttl_seconds goes on to the upstream exchange, and a session id is
\* created only by a callback that did, one at most for each.
C32_OneSessionPerState ==
    /\ [][\A t \in Procs :
            (CallbackBegins(t) /\ fpc'[t] = "await") =>
                \A at \in freach[Normalized(freq'[t].state)] : mono - at > GuardTtl]_vars
    /\ [][issued' # issued =>
            /\ Cardinality(issued' \ issued) = 1
            /\ \E t \in Procs : /\ fpc[t] = "await" /\ fpc'[t] = "done"
                                /\ fresp'[t].kind = "finish"
                                /\ fresp'[t].sid \in issued' \ issued]_vars
    /\ [][\A t \in Procs : (fpc[t] = "await" /\ fpc'[t] # "await") =>
            /\ fpc'[t] = "done"
            /\ Cardinality(issued' \ issued) <= 1]_vars

\* The callback that went on to the exchange has created its session, and
\* a second callback with the same state has been turned away inside the
\* window.
C32_Witness ==
    \E t, u \in Procs :
        /\ fpc[t] = "done" /\ fresp[t].kind = "finish" /\ fresp[t].sid \in issued
        /\ fpc[u] = "done" /\ freq[u].kind = "callback"
        /\ Normalized(freq[u].state) = Normalized(freq[t].state)
        /\ fresp[u] = RedirectError("Invalid OAuth state")
        /\ \A at \in freach[Normalized(freq[t].state)] : mono - at <= GuardTtl
        /\ Cardinality(issued) = 1

\* ---------------------------------------------------------------- C33
\* The access tokens the provider hands out.
AccessTokens == {b.token : b \in {x \in Bodies : TokenUsable(x.token)}}

\* C33: no answer of the callback carries a token: its redirect holds a
\* fixed message with the provider's error text, or the session id it has
\* issued; a token payload is only in the 200 answer of finalize.
C33_TokenOnlyThroughFinalize ==
    \A t \in Procs :
        /\ (freq[t].kind = "callback" /\ fresp[t].kind \notin {"none", "await"}) =>
               /\ fresp[t].payload = "None"
               /\ fresp[t].msg \notin AccessTokens
               /\ fresp[t].detail \notin AccessTokens
               /\ fresp[t].kind = "finish" => fresp[t].sid \in issued
               /\ fresp[t].kind # "finish" => fresp[t].sid = <<>>
        /\ fresp[t].payload # "None" =>
               /\ freq[t].kind = "finalize"
               /\ fresp[t].status = 200 /\ fresp[t].kind = "payload"

\* One callback has stored a token and answered with the finish redirect,
\* another was answered with the provider's error text although the body
\* held a token.
C33_Witness ==
    \E t, u \in Procs :
        /\ fpc[t] = "done" /\ freq[t].kind = "callback" /\ fresp[t].kind = "finish"
        /\ HasS(store, fresp[t].sid) /\ GetS(store, fresp[t].sid).payload \in AccessTokens
        /\ fpc[u] = "done" /\ freq[u].kind = "callback"
        /\ fresp[u].msg = "Notion OAuth failed" /\ fresp[u].detail = "invalid_grant"

\* ---------------------------------------------------------------- C34
\* C34: with require_https set, a request whose scheme is not https and
\* whose x-forwarded-proto is not exactly "https" is answered with 400 by
\* the middleware; the handler does not run for it: the nonce store and the
\* verification state stay as they are and no key is answered.
C34_PlainHttpRefused ==
    /\ [][(/\ hgate.stage = "idle" /\ hgate'.stage # "idle"
           /\ hgate'.require /\ hgate'.scheme # "https" /\ hgate'.proto # "https") =>
               hgate'.stage = "refused" /\ hgate'.status = 400]_vars
    /\ [][hgate.stage = "refused" =>
              /\ hgate'.stage \in {"refused", "idle"}
              /\ seen' = seen /\ pc' = pc /\ result' = result /\ hist' = hist]_vars
    /\ [](hgate.stage = "refused" => pc[Main] = "idle" /\ result[Main] = "pending")
    /\ [][(pc[Main] = "idle" /\ pc'[Main] # "idle") => hgate.stage = "next"]_vars

\* ---------------------------------------------------------------- C35
\* The k newest of a list of events, in the order of the list.
Newest(all, k) == [i \in 1..k |-> all[Len(all) - k + i]]

\* C35: after an add call the in-memory list has at most max_events
\* entries, and they are the most recently added events in insertion order.
C35_AtMostMaxEvents ==
    mpc = "serving" =>
        /\ Len(mevents) <= mmax
        /\ mevents = Newest(mall, IF Len(mall) < mmax THEN Len(mall) ELSE mmax)



\* ---------------------------------------------------------------- C36
\* The last request to /v1/metrics reached add, and _persist raised.
PersistFailed == madd.persist \in {"untouched", "emptied"}

\* C36: when writing the metrics file fails during add, the request is
\* answered with 500 and the list is not rolled back: the new event is its
\* last entry, the trimming to max_events stays applied, and a later
\* list_recent includes the event.
C36_FailedPersistKeepsEvent ==
    PersistFailed =>
        /\ madd.status = 500
        /\ Len(mevents) > 0
        /\ mevents[Len(mevents)] = madd.event
        /\ mmax >= 1 => Len(mevents) = (IF Len(mall) < mmax THEN Len(mall) ELSE mmax)
        /\ \A limit \in 1..MaxHistory :
              \E i \in 1..Len(ListRecent(limit)) : ListRecent(limit)[i] = madd.event

\* A failed write after an add that had to trim: the list holds max_events
\* events, the newest of them the event of the failed request.
C36_Witness ==
    /\ PersistFailed
    /\ madd.status = 500
    /\ mmax >= 1
    /\ Len(mall) > mmax
    /\ Len(mevents) = mmax
    /\ mevents[Len(mevents)] = madd.event
    /\ mfile.lines # [i \in 1..Len(mevents) |-> ModelDumpJson(mevents[i])]


\* ---------------------------------------------------------------- C37
\* C37: the token made by _make_session_token for a username is accepted by
\* _verify_session_token with that username at every instant up to its
\* expiry, and answered with 401 'Session expired' after the expiry.
C37_SessionTokenRoundTrip ==
    (dtok.made /\ dres.status # 0 /\ dres.token = dtok.token) =>
        IF dres.at <= dtok.exp * Res
        THEN dres.status = 200 /\ dres.username = dtok.username
        ELSE dres.status = 401 /\ dres.detail = "Session expired"


\* A request over plain http with the header in capitals has been refused,
\* after earlier requests had their nonces recorded.
C34_Witness ==
    /\ hgate.stage = "refused" /\ hgate.status = 400
    /\ hgate.require /\ hgate.scheme = "http" /\ hgate.proto = "HTTPS"
    /\ Len(seen) > 0

TypeOK ==
    /\ clock \in 0..MaxClock
    /\ mono \in Nat
    /\ lock \in Procs \cup {"free"}
    /\ Len(seen) <= MaxEntries + 1
====
